---------------------------- MODULE Spec2Model ----------------------------
(***************************************************************************)
(* A model of moostache (src/src/lib.rs): the parser that turns a template *)
(* source into a fragment list plus a section-skip table, the value        *)
(* resolver, the HTML-escape filter, the value writer and the renderer.    *)
(*                                                                         *)
(* Text is modelled as sequences of one-character strings, so that the     *)
(* parser, the resolver and the escape filter work on characters as the    *)
(* code works on bytes.                                                    *)
(***************************************************************************)
EXTENDS Integers, Sequences, FiniteSets, TLC

VARIABLES
    \* ---- parse (Template::parse, parse, _parse) ----
    source,        \* the source string handed to Template::parse
    input,         \* Stateful.input: the part of the source not yet consumed
    state,         \* Stateful.state: the State struct
    fragments,     \* the accumulator of the fold in _parse
    pc,            \* where the program is
    error,         \* the error value returned, or NoError
    \* ---- render (Template::render, _render) ----
    data,          \* the serde_json::Value handed to render
    loader,        \* the TemplateLoader handed to render
    scopes,        \* the scope stack
    frames,        \* the call stack of _render invocations
    writer,        \* the bytes written so far
    \* ---- resolve_value and EscapeHtml applied to drawn inputs ----
    call,          \* the inputs of the call under test
    ret            \* what it returned

parseVars  == <<source, input, state, fragments>>
renderVars == <<data, loader, scopes, frames, writer>>
unitVars   == <<call, ret>>
vars == <<source, input, state, fragments, pc, error,
          data, loader, scopes, frames, writer, call, ret>>

-----------------------------------------------------------------------------
(* Bounds of the model *)

\* the longest source, counted in chunks (see ValidChunks)
MaxChunks == 4
\* the longest well-formed prefix in front of a malformed tag, in chunks
MaxBadPrefix == 1

-----------------------------------------------------------------------------
(* Strings *)

Take(s, n) == SubSeq(s, 1, n)
Drop(s, n) == SubSeq(s, n + 1, Len(s))

StartsWith(s, p) ==
    /\ Len(p) <= Len(s)
    /\ SubSeq(s, 1, Len(p)) = p

\* stream::FindSlice: the 0-based offset of the first occurrence of p in s,
\* or -1 when there is none
RECURSIVE FindSliceFrom(_, _, _)
FindSliceFrom(s, p, i) ==
    IF i + Len(p) > Len(s) THEN -1
    ELSE IF SubSeq(s, i + 1, i + Len(p)) = p THEN i
    ELSE FindSliceFrom(s, p, i + 1)

FindSlice(s, p) == FindSliceFrom(s, p, 0)

\* take_while(0.., set): the length of the longest prefix of s made of
\* characters of the set
RECURSIVE TakeWhileFrom(_, _, _)
TakeWhileFrom(s, set, n) ==
    IF n < Len(s) /\ s[n + 1] \in set THEN TakeWhileFrom(s, set, n + 1) ELSE n

TakeWhileLen(s, set) == TakeWhileFrom(s, set, 0)

Digits == {"0", "1", "2", "3", "4", "5", "6", "7", "8", "9"}
Lower == {"a", "b", "c", "d", "e", "f", "g", "h", "i", "j", "k", "l", "m",
          "n", "o", "p", "q", "r", "s", "t", "u", "v", "w", "x", "y", "z"}
Upper == {"A", "B", "C", "D", "E", "F", "G", "H", "I", "J", "K", "L", "M",
          "N", "O", "P", "Q", "R", "S", "T", "U", "V", "W", "X", "Y", "Z"}

\* is_variable_name: the characters of a variable name
VariableNameChars == Lower \cup Upper \cup Digits \cup {"-", "_"}

\* is_file_name, VALID_FILE_CHARS: the characters of a file name
FileNameChars ==
    Lower \cup Upper \cup Digits \cup
    {"_", "-", ".", ",", "!", "@", "#", "$", "%", "^", "&", "(", ")",
     "+", "=", "[", "]", "~"}

\* winnow::ascii::multispace0 takes spaces, tabs, carriage returns, line feeds
MultispaceChars == {" ", "\t", "\r", "\n"}

-----------------------------------------------------------------------------
(* serde_json::Value.  A value is a record with the same fields for every
   variant: t the variant, b the boolean of a Bool, n the number of a
   Number, s the text of a String, a the elements of an Array or the member
   values of an Object, k the member keys of an Object in the order the
   map keeps them (sorted).  A Number keeps its serde_json representation:
   t is "PosInt", "NegInt" or "Float", and a Float is counted in tenths. *)

Value(t, b, n, s, k, a) == [t |-> t, b |-> b, n |-> n, s |-> s, k |-> k, a |-> a]

Null == Value("Null", FALSE, 0, <<>>, <<>>, <<>>)
Bool(b) == Value("Bool", b, 0, <<>>, <<>>, <<>>)
PosInt(n) == Value("PosInt", FALSE, n, <<>>, <<>>, <<>>)
NegInt(n) == Value("NegInt", FALSE, n, <<>>, <<>>, <<>>)
Float(tenths) == Value("Float", FALSE, tenths, <<>>, <<>>, <<>>)
Str(s) == Value("String", FALSE, 0, s, <<>>, <<>>)
Arr(seq) == Value("Array", FALSE, 0, <<>>, <<>>, seq)
Obj(keys, vals) == Value("Object", FALSE, 0, <<>>, keys, vals)

NoValue == Value("None", FALSE, 0, <<>>, <<>>, <<>>)

EmptyObj == Obj(<<>>, <<>>)
Obj1(key, val) == Obj(<<key>>, <<val>>)

IsNumber(value) == value.t \in {"PosInt", "NegInt", "Float"}

\* Map::contains_key and Map::get
HasKey(object, key) == \E i \in 1..Len(object.k) : object.k[i] = key
Get(object, key) == object.a[CHOOSE i \in 1..Len(object.k) : object.k[i] = key]

\* is_truthy that takes every object, the empty one too, for truthy
is_truthy_any_object(value) ==
    CASE value.t = "Null" -> FALSE
      [] value.t = "Bool" -> value.b
      [] IsNumber(value) -> value # PosInt(0)
      [] value.t = "String" -> value.s # <<>>
      [] value.t = "Array" -> Len(value.a) # 0
      [] value.t = "Object" -> TRUE

\* a truthiness that takes the numbers below zero for false
is_truthy_positive_numbers(value) ==
    CASE value.t = "Null" -> FALSE
      [] value.t = "Bool" -> value.b
      [] IsNumber(value) -> value.n > 0
      [] value.t = "String" -> value.s # <<>>
      [] value.t = "Array" -> Len(value.a) # 0
      [] value.t = "Object" -> Len(value.k) # 0

\* is_truthy
is_truthy(value) ==
    CASE value.t = "Null" -> FALSE
      [] value.t = "Bool" -> value.b
      [] IsNumber(value) -> value # PosInt(0)
      [] value.t = "String" -> value.s # <<>>
      [] value.t = "Array" -> Len(value.a) # 0
      [] value.t = "Object" -> Len(value.k) # 0

DigitChars == <<"0", "1", "2", "3", "4", "5", "6", "7", "8", "9">>

\* key.parse::<usize>(): the number, or -1 for Err.  (A leading '+' parses
\* too, but no variable name holds one.)
RECURSIVE DigitsValue(_, _)
DigitsValue(key, acc) ==
    IF key = <<>> THEN acc
    ELSE DigitsValue(Tail(key),
            10 * acc + (CHOOSE d \in 0..9 : DigitChars[d + 1] = Head(key)))

ParseUsize(key) ==
    IF key # <<>> /\ \A i \in 1..Len(key) : key[i] \in Digits
    THEN DigitsValue(key, 0)
    ELSE -1

\* path.split('.')
RECURSIVE Split(_)
Split(path) ==
    LET dot == FindSlice(path, <<".">>)
    IN  IF dot = -1 THEN <<path>>
        ELSE <<Take(path, dot)>> \o Split(Drop(path, dot + 1))

Returned(value) == [r |-> "Return", v |-> value]
ContinueParent == [r |-> "Parent", v |-> Null]

\* a lookup that goes to the parent scope on every miss
RECURSIVE ResolveKeys_any_miss_to_parent(_, _, _)
ResolveKeys_any_miss_to_parent(keys, idx, resolved_value) ==
    IF idx >= Len(keys) THEN Returned(resolved_value)
    ELSE
        LET key == keys[idx + 1]
        IN  IF resolved_value.t = "Array"
            THEN LET index == ParseUsize(key)
                 IN  IF index # -1 /\ index < Len(resolved_value.a)
                     THEN ResolveKeys_any_miss_to_parent(keys, idx + 1,
                              resolved_value.a[index + 1])
                     ELSE ContinueParent
            ELSE IF resolved_value.t = "Object" /\ HasKey(resolved_value, key)
            THEN ResolveKeys_any_miss_to_parent(keys, idx + 1,
                                                Get(resolved_value, key))
            ELSE ContinueParent

\* resolve_value, the inner loop over the keys of the path from the idx-th
\* (0-based) on, resolved_value being the value reached so far
RECURSIVE ResolveKeys(_, _, _)
ResolveKeys(keys, idx, resolved_value) ==
    IF idx >= Len(keys) THEN Returned(resolved_value)
    ELSE
        LET key == keys[idx + 1]
            missing == IF idx = 0 THEN ContinueParent ELSE Returned(Null)
        IN  IF resolved_value.t = "Array"
            THEN LET index == ParseUsize(key)
                 IN  IF index # -1
                     THEN IF index < Len(resolved_value.a)
                          THEN ResolveKeys(keys, idx + 1,
                                           resolved_value.a[index + 1])
                          ELSE Returned(Null)
                     ELSE missing
            ELSE IF resolved_value.t = "Object"
            THEN IF HasKey(resolved_value, key)
                 THEN ResolveKeys(keys, idx + 1, Get(resolved_value, key))
                 ELSE missing
            ELSE missing

\* a lookup in the innermost scope only
ResolveScopes_innermost_only(keys, stack, i) ==
    LET found == ResolveKeys(keys, 0, stack[i])
    IN  IF found.r = "Parent" THEN Null ELSE found.v

\* resolve_value, the outer loop over scopes.iter().rev(), at the i-th scope
\* (1-based); after the last scope the function returns resolved_value,
\* which then is the scope the loop looked at last
RECURSIVE ResolveScopes(_, _, _)
ResolveScopes(keys, stack, i) ==
    IF i = 0
    THEN IF stack = <<>> THEN Null ELSE stack[1]
    ELSE LET found == ResolveKeys(keys, 0, stack[i])
         IN  IF found.r = "Parent" THEN ResolveScopes(keys, stack, i - 1)
             ELSE found.v

resolve_value(path, stack) ==
    IF path = <<".">> THEN stack[Len(stack)]
    ELSE ResolveScopes(Split(path), stack, Len(stack))

-----------------------------------------------------------------------------
(* EscapeHtml and write_value.  A writer is the sequence of the bytes
   written to it. *)

Amp == <<"&", "a", "m", "p", ";">>
Lt == <<"&", "l", "t", ";">>
Gt == <<"&", "g", "t", ";">>
Quot == <<"&", "q", "u", "o", "t", ";">>
Apos == <<"&", "#", "x", "2", "7", ";">>

EscapedChars == {"&", "<", ">", "\"", "'"}

Entity(byte) ==
    CASE byte = "&" -> Amp
      [] byte = "<" -> Lt
      [] byte = ">" -> Gt
      [] byte = "\"" -> Quot
      [] byte = "'" -> Apos

\* a filter that never passes the pending run on
Pending_lost(buf, start, end) == <<>>

\* what the pending run buf[start..end] adds to the inner writer
Pending(buf, start, end) ==
    IF start < end THEN SubSeq(buf, start + 1, end) ELSE <<>>

\* EscapeHtml::write_all, the loop from the i-th byte (0-based) on; inner is
\* what the inner writer has received
RECURSIVE EscapeLoop(_, _, _, _, _)
EscapeLoop(buf, i, start, end, inner) ==
    IF i >= Len(buf)
    THEN inner \o Pending(buf, start, end)
    ELSE IF buf[i + 1] \in EscapedChars
    THEN EscapeLoop(buf, i + 1, end + 1, end + 1,
                    inner \o Pending(buf, start, end) \o Entity(buf[i + 1]))
    ELSE EscapeLoop(buf, i + 1, start, end + 1, inner)

\* EscapeHtml(w).write_all(buf): the writer afterwards
EscapeHtml_write_all(w, buf) == EscapeLoop(buf, 0, 0, 0, w)

\* W::write_all of a Vec<u8> or a String
write_all(w, buf) == w \o buf

RECURSIVE DigitsOf(_)
DigitsOf(n) ==
    IF n < 10 THEN <<DigitChars[n + 1]>>
    ELSE DigitsOf(n \div 10) \o <<DigitChars[(n % 10) + 1]>>

\* serde_json's string literal: quotes around, '"' and '\' escaped
RECURSIVE JsonChars(_)
JsonChars(s) ==
    IF s = <<>> THEN <<>>
    ELSE (IF Head(s) \in {"\"", "\\"} THEN <<"\\", Head(s)>> ELSE <<Head(s)>>)
         \o JsonChars(Tail(s))

JsonString(s) == <<"\"">> \o JsonChars(s) \o <<"\"">>

\* value.serialize(serde_json::Serializer): the compact JSON text
RECURSIVE ToJson(_)
RECURSIVE JoinJson(_)
RECURSIVE JoinMembers(_, _)
JoinJson(seq) ==
    IF seq = <<>> THEN <<>>
    ELSE ToJson(Head(seq))
         \o (IF Tail(seq) = <<>> THEN <<>> ELSE <<",">> \o JoinJson(Tail(seq)))

JoinMembers(keys, vals) ==
    IF keys = <<>> THEN <<>>
    ELSE JsonString(Head(keys)) \o <<":">> \o ToJson(Head(vals))
         \o (IF Tail(keys) = <<>> THEN <<>>
             ELSE <<",">> \o JoinMembers(Tail(keys), Tail(vals)))

ToJson(value) ==
    CASE value.t = "Null" -> <<"n", "u", "l", "l">>
      [] value.t = "Bool" -> IF value.b THEN <<"t", "r", "u", "e">>
                             ELSE <<"f", "a", "l", "s", "e">>
      [] value.t = "PosInt" -> DigitsOf(value.n)
      [] value.t = "NegInt" -> <<"-">> \o DigitsOf(0 - value.n)
      [] value.t = "Float" ->
            DigitsOf(value.n \div 10) \o <<".">> \o DigitsOf(value.n % 10)
      [] value.t = "String" -> JsonString(value.s)
      [] value.t = "Array" -> <<"[">> \o JoinJson(value.a) \o <<"]">>
      [] value.t = "Object" ->
            <<"{">> \o JoinMembers(value.k, value.a) \o <<"}">>

\* the bytes write_value hands to its writer: nothing for Null, the string
\* itself for a String, the JSON text for the rest
ValueBytes(value) ==
    IF value.t = "Null" THEN <<>>
    ELSE IF value.t = "String" THEN value.s
    ELSE ToJson(value)

\* write_value(value, writer) with the writer itself, or with
\* EscapeHtml(writer) when escape is TRUE: the writer afterwards.  The
\* serializer hands its text to the writer in pieces; EscapeHtml keeps
\* nothing between two calls, so the text is handed over here in one call.
write_value(value, w, escape) ==
    IF value.t = "Null" THEN w
    ELSE IF escape THEN EscapeHtml_write_all(w, ValueBytes(value))
    ELSE write_all(w, ValueBytes(value))

-----------------------------------------------------------------------------
(* Parser state: struct State, SectionMeta, SectionSkip *)

\* the largest value of the u16 fields of SectionSkip
U16_MAX == 65535

\* a conversion that never fails: the count is stored whatever its size
TryFromU16_unchecked(n) == n

\* u16::try_from(n) for a usize n: the value, or -1 for Err
TryFromU16(n) == IF n <= U16_MAX THEN n ELSE -1

\* new_input: the State a parse starts with
NewState ==
    [fragment_index |-> 0, section_index |-> 0,
     section_starts |-> <<>>, section_skips |-> <<>>]

visited_fragment(st) ==
    [st EXCEPT !.fragment_index = @ + 1]

visited_section_start(st, name) ==
    [st EXCEPT
        !.section_starts = Append(@, [name |-> name,
                                      section_index |-> st.section_index,
                                      fragment_index |-> st.fragment_index]),
        !.section_skips = Append(@, [nested_sections |-> 0,
                                     nested_fragments |-> 0]),
        !.fragment_index = @ + 1,
        !.section_index = @ + 1]

\* visited_section_end counting the section's own fragment among the nested
\* ones (the "- 1" forgotten)
visited_section_end_off_by_one(st, name) ==
    IF st.section_starts = <<>> THEN [r |-> "Err", st |-> st]
    ELSE
        LET n      == Len(st.section_starts)
            start  == st.section_starts[n]
            popped == [st EXCEPT !.section_starts = SubSeq(@, 1, n - 1)]
            ns     == TryFromU16((st.section_index - 1) - start.section_index)
            nf     == TryFromU16(st.fragment_index - start.fragment_index)
        IN  IF start.name # name THEN [r |-> "Err", st |-> popped]
            ELSE IF ns = -1 \/ nf = -1 THEN [r |-> "Panic", st |-> popped]
            ELSE
                [r |-> "Ok",
                 st |-> [popped EXCEPT
                    !.section_skips[start.section_index + 1] =
                        [nested_sections |-> ns, nested_fragments |-> nf]]]

\* visited_section_end without the comparison of the names
visited_section_end_any_name(st, name) ==
    IF st.section_starts = <<>> THEN [r |-> "Err", st |-> st]
    ELSE
        LET n      == Len(st.section_starts)
            start  == st.section_starts[n]
            popped == [st EXCEPT !.section_starts = SubSeq(@, 1, n - 1)]
            ns     == TryFromU16((st.section_index - 1) - start.section_index)
            nf     == TryFromU16((st.fragment_index - 1) - start.fragment_index)
        IN  IF ns = -1 \/ nf = -1 THEN [r |-> "Panic", st |-> popped]
            ELSE
                [r |-> "Ok",
                 st |-> [popped EXCEPT
                    !.section_skips[start.section_index + 1] =
                        [nested_sections |-> ns, nested_fragments |-> nf]]]

\* visited_section_end: [r |-> "Ok" | "Err" | "Panic", st |-> the State after].
\* The pop happens before the names are compared; a failed try_from makes
\* expect() panic, the first of the two conversions first.
visited_section_end(st, name) ==
    IF st.section_starts = <<>> THEN [r |-> "Err", st |-> st]
    ELSE
        LET n      == Len(st.section_starts)
            start  == st.section_starts[n]
            popped == [st EXCEPT !.section_starts = SubSeq(@, 1, n - 1)]
            ns     == TryFromU16((st.section_index - 1) - start.section_index)
            nf     == TryFromU16((st.fragment_index - 1) - start.fragment_index)
        IN  IF start.name # name THEN [r |-> "Err", st |-> popped]
            ELSE IF ns = -1 THEN [r |-> "Panic", st |-> popped]
            ELSE IF nf = -1 THEN
                [r |-> "Panic",
                 st |-> [popped EXCEPT
                    !.section_skips[start.section_index + 1].nested_sections = ns]]
            ELSE
                [r |-> "Ok",
                 st |-> [popped EXCEPT
                    !.section_skips[start.section_index + 1] =
                        [nested_sections |-> ns, nested_fragments |-> nf]]]

\* still_expecting_section_ends that never reports an open section
still_expecting_nothing(st) == FALSE

still_expecting_section_ends(st) == st.section_starts # <<>>

-----------------------------------------------------------------------------
(* Parser combinators.  A result is                                        *)
(*   [k |-> "Ok", v |-> the value, rest |-> the input left]  or            *)
(*   [k |-> "Backtrack" | "Cut", e |-> the InternalError].                 *)

POk(v, rest) == [k |-> "Ok", v |-> v, rest |-> rest, e |-> "None"]
PErr(k, e)   == [k |-> k, v |-> <<>>, rest |-> <<>>, e |-> e]

\* separated(1.., take_while(1.., names), sep).take(): the number of
\* characters taken, or -1 when there is no first name.  A separator that no
\* name follows is not taken.
RECURSIVE SeparatedMore(_, _, _)
SeparatedMore(s, names, sep) ==
    IF s # <<>> /\ s[1] = sep /\ TakeWhileLen(Drop(s, 1), names) >= 1
    THEN LET n == TakeWhileLen(Drop(s, 1), names)
         IN  1 + n + SeparatedMore(Drop(s, 1 + n), names, sep)
    ELSE 0

Separated1Len(s, names, sep) ==
    LET n == TakeWhileLen(s, names)
    IN  IF n = 0 THEN -1 ELSE n + SeparatedMore(Drop(s, n), names, sep)

\* parse_variable_path: the path without the whitespace around it
parse_variable_path(s) ==
    LET r1 == Drop(s, TakeWhileLen(s, MultispaceChars))
        sl == Separated1Len(r1, VariableNameChars, ".")
        n  == IF sl # -1 THEN sl ELSE IF StartsWith(r1, <<".">>) THEN 1 ELSE -1
    IN  IF n = -1 THEN PErr("Backtrack", "ParseErrorGeneric")
        ELSE LET r2 == Drop(r1, n)
             IN  POk(Take(r1, n), Drop(r2, TakeWhileLen(r2, MultispaceChars)))

\* parse_file_path
parse_file_path(s) ==
    LET r1 == Drop(s, TakeWhileLen(s, MultispaceChars))
        n  == Separated1Len(r1, FileNameChars, "/")
    IN  IF n = -1 THEN PErr("Backtrack", "ParseErrorGeneric")
        ELSE LET r2 == Drop(r1, n)
             IN  POk(Take(r1, n), Drop(r2, TakeWhileLen(r2, MultispaceChars)))

\* delimited(literal(open), cut_err(path), cut_err(literal(close)))
\*     .context(ctx)
\* where body is what the path parser returns on the input after open.
\* add_context replaces the error of a Backtrack and of a Cut alike.
Delimited(s, open, body, close, ctx) ==
    IF ~StartsWith(s, open) THEN PErr("Backtrack", ctx)
    ELSE IF body.k # "Ok" THEN PErr("Cut", ctx)
    ELSE IF ~StartsWith(body.rest, close) THEN PErr("Cut", ctx)
    ELSE POk(body.v, Drop(body.rest, Len(close)))

OpenEscaped   == <<"{", "{">>
OpenUnescaped == <<"{", "{", "{">>
OpenSection   == <<"{", "{", "#">>
OpenInverted  == <<"{", "{", "^">>
OpenEnd       == <<"{", "{", "/">>
OpenComment   == <<"{", "{", "!">>
OpenPartial   == <<"{", "{", ">">>
Close2        == <<"}", "}">>
Close3        == <<"}", "}", "}">>

Frag(kind, s) == [kind |-> kind, s |-> s]

\* parse_literal that stops at the first "{" instead of the first "{{"
parse_literal_to_brace(s) ==
    IF s = <<>> THEN PErr("Backtrack", "ParseErrorGeneric")
    ELSE LET at == FindSlice(s, <<"{">>)
         IN  IF at = 0 THEN PErr("Backtrack", "ParseErrorGeneric")
             ELSE IF at > 0 THEN POk(Take(s, at), Drop(s, at))
             ELSE POk(s, <<>>)

\* parse_literal: everything up to the next "{{" or the end of input
parse_literal(s) ==
    IF s = <<>> THEN PErr("Backtrack", "ParseErrorGeneric")
    ELSE LET at == FindSlice(s, OpenEscaped)
         IN  IF at = 0 THEN PErr("Backtrack", "ParseErrorGeneric")
             ELSE IF at > 0 THEN POk(Take(s, at), Drop(s, at))
             ELSE POk(s, <<>>)

parse_escaped_variable(s) ==
    Delimited(s, OpenEscaped, parse_variable_path(Drop(s, 2)), Close2,
              "ParseErrorInvalidEscapedVariableTag")

parse_unescaped_variable(s) ==
    Delimited(s, OpenUnescaped, parse_variable_path(Drop(s, 3)), Close3,
              "ParseErrorInvalidUnescapedVariableTag")

\* parse_comment: from "{{!" to the end of the first "}}" of the input
parse_comment(s) ==
    IF StartsWith(s, OpenComment)
    THEN LET at == FindSlice(s, Close2)
         IN  IF at >= 0 THEN POk(<<>>, Drop(s, at + 2))
             ELSE PErr("Cut", "ParseErrorInvalidCommentTag")
    ELSE PErr("Backtrack", "ParseErrorGeneric")

\* parse_section_start without cut_err: a bad path or a missing closer
\* backtracks, and alt goes on to the next alternative
parse_section_start_tag_no_cut(s) ==
    LET body == parse_variable_path(Drop(s, 3))
    IN  IF StartsWith(s, OpenSection) /\ body.k = "Ok"
           /\ StartsWith(body.rest, Close2)
        THEN POk(body.v, Drop(body.rest, 2))
        ELSE PErr("Backtrack", "ParseErrorInvalidSectionStartTag")

parse_section_start_tag(s) ==
    Delimited(s, OpenSection, parse_variable_path(Drop(s, 3)), Close2,
              "ParseErrorInvalidSectionStartTag")

parse_inverted_section_start_tag(s) ==
    Delimited(s, OpenInverted, parse_variable_path(Drop(s, 3)), Close2,
              "ParseErrorInvalidInvertedSectionStartTag")

parse_section_end_tag(s) ==
    Delimited(s, OpenEnd, parse_variable_path(Drop(s, 3)), Close2,
              "ParseErrorInvalidSectionEndTag")

parse_partial(s) ==
    Delimited(s, OpenPartial, parse_file_path(Drop(s, 3)), Close2,
              "ParseErrorInvalidPartialTag")

-----------------------------------------------------------------------------
(* Errors: MoostacheError as [kind, name] *)

NoError == [kind |-> "None", name |-> <<>>]

\* MoostacheError::from_internal(internal, s)
from_internal(internal, s) == [kind |-> internal, name |-> s]

-----------------------------------------------------------------------------
(* The sources the model parses: concatenations of chunks.  A source is     *)
(* either up to MaxChunks well-formed chunks, or up to MaxBadPrefix         *)
(* well-formed chunks followed by one malformed tag.                        *)

LitX        == <<"x">>
LitBrace    == <<"{">>
TagEscA     == <<"{", "{", " ", "a", " ", "}", "}">>
TagUnescDot == <<"{", "{", "{", ".", "}", "}", "}">>
TagSecA     == <<"{", "{", "#", "a", "}", "}">>
TagInvB     == <<"{", "{", "^", "b", "}", "}">>
TagEndA     == <<"{", "{", "/", "a", "}", "}">>
TagEndB     == <<"{", "{", "/", " ", "b", " ", "}", "}">>
TagComment  == <<"{", "{", "!", "c", "}", "}">>
TagPartialP == <<"{", "{", ">", "p", "}", "}">>

ValidChunks ==
    {LitX, LitBrace, TagEscA, TagUnescDot, TagSecA, TagInvB, TagEndA, TagEndB,
     TagComment, TagPartialP}

\* malformed tags: an invalid path, or a missing closer, after each opener
BadSecPath      == <<"{", "{", "#", "&", "}", "}">>
BadSecClose     == <<"{", "{", "#", "a", "}">>
BadInvPath      == <<"{", "{", "^", "a", ".", "}", "}">>
BadInvClose     == <<"{", "{", "^", "a", " ">>
BadEndPath      == <<"{", "{", "/", "}", "}">>
BadEndClose     == <<"{", "{", "/", "a", "}">>
BadUnescPath    == <<"{", "{", "{", "&", "}", "}", "}">>
BadUnescClose   == <<"{", "{", "{", "a", "}", "}">>
BadCommentClose == <<"{", "{", "!", "c", "}">>
BadPartialPath  == <<"{", "{", ">", "<", "}", "}">>
BadPartialClose == <<"{", "{", ">", "p", "}">>
BadEscPath      == <<"{", "{", " ", "#", "a", "}", "}">>
BadEscClose     == <<"{", "{", "a", "}">>

BadChunks ==
    {BadSecPath, BadSecClose, BadInvPath, BadInvClose, BadEndPath, BadEndClose,
     BadUnescPath, BadUnescClose, BadCommentClose, BadPartialPath,
     BadPartialClose, BadEscPath, BadEscClose}

RECURSIVE Flatten(_)
Flatten(cs) == IF cs = <<>> THEN <<>> ELSE Head(cs) \o Flatten(Tail(cs))

ChunkSeqs(n) == UNION {[1..m -> ValidChunks] : m \in 0..n}

Sources ==
    {Flatten(cs) : cs \in ChunkSeqs(MaxChunks)} \cup
    {Flatten(cs) \o b : cs \in ChunkSeqs(MaxBadPrefix), b \in BadChunks}

-----------------------------------------------------------------------------
(* Template::parse, parse and _parse, one step of the repeat loop at a time *)

\* alt((parse_literal, parse_section_end, parse_section_start,
\*      parse_inverted_section_start, parse_unescaped_variable, parse_comment,
\*      parse_partial, parse_escaped_variable)):
\* the first alternative that does not backtrack, 0 when all of them do
Alt(s) ==
    IF parse_literal(s).k # "Backtrack" THEN 1
    ELSE IF parse_section_end_tag(s).k # "Backtrack" THEN 2
    ELSE IF parse_section_start_tag(s).k # "Backtrack" THEN 3
    ELSE IF parse_inverted_section_start_tag(s).k # "Backtrack" THEN 4
    ELSE IF parse_unescaped_variable(s).k # "Backtrack" THEN 5
    ELSE IF parse_comment(s).k # "Backtrack" THEN 6
    ELSE IF parse_partial(s).k # "Backtrack" THEN 7
    ELSE IF parse_escaped_variable(s).k # "Backtrack" THEN 8
    ELSE 0

\* what a parse in progress holds: [input, state, fragments, pc, error], with
\* pc "start" (before the empty check), "loop" (in repeat), and at the end
\* "parsed" (Ok(template)), "error" (Err(error)) or "panic"
NewParse(src) ==
    [input |-> src, state |-> NewState, fragments |-> <<>>,
     pc |-> "start", error |-> NoError]

\* Template::parse returning Err(from_internal(err, String::new()))
ParseFails(ps, kind) ==
    [ps EXCEPT !.pc = "error", !.error = from_internal(kind, <<>>)]

\* a tag that yields a fragment and counts as one visited fragment
ParseFragmentTag(ps, r, kind) ==
    IF r.k = "Ok"
    THEN [ps EXCEPT !.input = r.rest,
                    !.fragments = Append(@, Frag(kind, r.v)),
                    !.state = visited_fragment(@)]
    ELSE ParseFails(ps, r.e)

\* parse_section_start and parse_inverted_section_start
ParseSectionTag(ps, r, kind) ==
    IF r.k = "Ok"
    THEN [ps EXCEPT !.input = r.rest,
                    !.fragments = Append(@, Frag(kind, r.v)),
                    !.state = visited_section_start(@, r.v)]
    ELSE ParseFails(ps, r.e)

\* parse_section_end
ParseSectionEndTag(ps, r) ==
    IF r.k # "Ok" THEN ParseFails(ps, r.e)
    ELSE LET v == visited_section_end(ps.state, r.v)
         IN  IF v.r = "Err"
             THEN ParseFails(ps, "ParseErrorMismatchedSectionEndTag")
             ELSE IF v.r = "Panic" THEN [ps EXCEPT !.pc = "panic"]
             ELSE [ps EXCEPT !.input = r.rest, !.state = v.st]

\* a comment that counts as a visited fragment
ParseCommentTag_counts_fragment(ps, r) ==
    IF r.k = "Ok"
    THEN [ps EXCEPT !.input = r.rest, !.state = visited_fragment(@)]
    ELSE ParseFails(ps, r.e)


\* parse_comment: no fragment, no index advances
ParseCommentTag(ps, r) ==
    IF r.k = "Ok" THEN [ps EXCEPT !.input = r.rest] ELSE ParseFails(ps, r.e)

\* _parse: an empty source is refused before the loop
ParseEntry(ps) ==
    IF ps.input = <<>> THEN ParseFails(ps, "ParseErrorNoContent")
    ELSE [ps EXCEPT !.pc = "loop"]

\* the repeat loop ends when every alternative backtracks; _parse then checks
\* for unclosed sections and Parser::parse for input left over
ParseExit(ps) ==
    IF still_expecting_section_ends(ps.state)
    THEN ParseFails(ps, "ParseErrorUnclosedSectionTags")
    ELSE IF ps.input # <<>> THEN ParseFails(ps, "ParseErrorGeneric")
    ELSE [ps EXCEPT !.pc = "parsed"]

\* one iteration of the repeat loop, by the alternative that applies
ParseAlt(ps, alt) ==
    LET s == ps.input
    IN  CASE alt = 1 -> ParseFragmentTag(ps, parse_literal(s), "Literal")
          [] alt = 2 -> ParseSectionEndTag(ps, parse_section_end_tag(s))
          [] alt = 3 -> ParseSectionTag(ps, parse_section_start_tag(s), "Section")
          [] alt = 4 -> ParseSectionTag(ps, parse_inverted_section_start_tag(s),
                                        "InvertedSection")
          [] alt = 5 -> ParseFragmentTag(ps, parse_unescaped_variable(s),
                                         "UnescapedVariable")
          [] alt = 6 -> ParseCommentTag(ps, parse_comment(s))
          [] alt = 7 -> ParseFragmentTag(ps, parse_partial(s), "Partial")
          [] alt = 8 -> ParseFragmentTag(ps, parse_escaped_variable(s),
                                         "EscapedVariable")
          [] OTHER   -> ParseExit(ps)

RECURSIVE ParseRun(_)
ParseRun(ps) ==
    IF ps.pc = "start" THEN ParseRun(ParseEntry(ps))
    ELSE IF ps.pc = "loop" THEN ParseRun(ParseAlt(ps, Alt(ps.input)))
    ELSE ps

\* struct Template: the fragments and the skips
Template(frags, skips) == [fragments |-> frags, skips |-> skips]

\* Template::parse(source) as a whole: [pc, error, template]
template_parse(src) ==
    LET ps == ParseRun(NewParse(src))
    IN  [pc |-> ps.pc, error |-> ps.error,
         template |-> Template(ps.fragments, ps.state.section_skips)]

-----------------------------------------------------------------------------
(* The parse as actions on the variables *)

Parsing == [input |-> input, state |-> state, fragments |-> fragments,
            pc |-> pc, error |-> error]

ParseBecomes(ps) ==
    /\ input' = ps.input
    /\ state' = ps.state
    /\ fragments' = ps.fragments
    /\ pc' = ps.pc
    /\ error' = ps.error
    /\ UNCHANGED <<source, renderVars, unitVars>>

ParseEmptyCheck ==
    /\ pc = "start"
    /\ ParseBecomes(ParseEntry(Parsing))

ParseLiteral ==
    /\ pc = "loop"
    /\ Alt(input) = 1
    /\ ParseBecomes(ParseAlt(Parsing, 1))

ParseSectionEnd ==
    /\ pc = "loop"
    /\ Alt(input) = 2
    /\ ParseBecomes(ParseAlt(Parsing, 2))

ParseSectionStart ==
    /\ pc = "loop"
    /\ Alt(input) = 3
    /\ ParseBecomes(ParseAlt(Parsing, 3))

ParseInvertedSectionStart ==
    /\ pc = "loop"
    /\ Alt(input) = 4
    /\ ParseBecomes(ParseAlt(Parsing, 4))

ParseUnescapedVariable ==
    /\ pc = "loop"
    /\ Alt(input) = 5
    /\ ParseBecomes(ParseAlt(Parsing, 5))

ParseComment ==
    /\ pc = "loop"
    /\ Alt(input) = 6
    /\ ParseBecomes(ParseAlt(Parsing, 6))

ParsePartial ==
    /\ pc = "loop"
    /\ Alt(input) = 7
    /\ ParseBecomes(ParseAlt(Parsing, 7))

ParseEscapedVariable ==
    /\ pc = "loop"
    /\ Alt(input) = 8
    /\ ParseBecomes(ParseAlt(Parsing, 8))

ParseEnd ==
    /\ pc = "loop"
    /\ Alt(input) = 0
    /\ ParseBecomes(ParseAlt(Parsing, 0))

Parse ==
    \/ ParseEmptyCheck
    \/ ParseLiteral
    \/ ParseSectionEnd
    \/ ParseSectionStart
    \/ ParseInvertedSectionStart
    \/ ParseUnescapedVariable
    \/ ParseComment
    \/ ParsePartial
    \/ ParseEscapedVariable
    \/ ParseEnd

\* a TemplateLoader: t its type, templates its entries [name, template]
Loader(t, templates) == [t |-> t, templates |-> templates]
NoLoader == Loader("None", <<>>)

\* the variables a specification does not use
RenderIdle ==
    /\ data = NoValue
    /\ loader = NoLoader
    /\ scopes = <<>>
    /\ frames = <<>>
    /\ writer = <<>>

UnitIdle == call = <<>> /\ ret = <<>>

\* Template::parse is about to be called on a source
Init ==
    /\ source \in Sources
    /\ input = source
    /\ state = NewState
    /\ fragments = <<>>
    /\ pc = "start"
    /\ error = NoError
    /\ RenderIdle
    /\ UnitIdle

Next == Parse

Spec == Init /\ [][Next]_vars

-----------------------------------------------------------------------------
(* The parser state on long templates.  A template of more than 65 535 tags
   is followed by the State struct alone: the source text, the input left
   and the fragment list stay out of the state, and each step is what one
   parsed tag does to the State. *)

\* how far below U16_MAX the templates start, how far past it they may go
SkipBelow == 2
SkipOver == 3

ZeroSkip == [nested_sections |-> 0, nested_fragments |-> 0]

\* the State after "{{#a}}" and n tags that are no section tags
StateInLongSection(n) ==
    [fragment_index |-> n + 1, section_index |-> 1,
     section_starts |-> <<[name |-> <<"a">>, section_index |-> 0,
                           fragment_index |-> 0]>>,
     section_skips |-> <<ZeroSkip>>]

\* the State after "{{#a}}" and n times "{{#b}}{{/b}}"
StateInSectionOfSections(n) ==
    [fragment_index |-> n + 1, section_index |-> n + 1,
     section_starts |-> <<[name |-> <<"a">>, section_index |-> 0,
                           fragment_index |-> 0]>>,
     section_skips |-> [i \in 1..(n + 1) |-> ZeroSkip]]

\* the State after n tags that are no section tags
StateAfterFragments(n) ==
    [fragment_index |-> n, section_index |-> 0,
     section_starts |-> <<>>, section_skips |-> <<>>]

LongStates ==
    {StateInLongSection(n) : n \in (U16_MAX - SkipBelow)..U16_MAX}
    \cup {StateAfterFragments(n) : n \in (U16_MAX - SkipBelow)..U16_MAX}
    \cup {StateInSectionOfSections(U16_MAX)}

SkipIdle ==
    /\ source = <<>>
    /\ input = <<>>
    /\ fragments = <<>>

SkipInit ==
    /\ state \in LongStates
    /\ pc = "loop"
    /\ error = NoError
    /\ SkipIdle
    /\ RenderIdle
    /\ UnitIdle

SkipStays == UNCHANGED <<source, input, fragments, renderVars, unitVars>>

SectionNames == {<<"a">>, <<"b">>}

\* a literal, a variable or a partial tag is parsed
SkipFragment ==
    /\ pc = "loop"
    /\ state.fragment_index < U16_MAX + SkipOver
    /\ state' = visited_fragment(state)
    /\ UNCHANGED <<pc, error>>
    /\ SkipStays

\* a section or inverted section start tag is parsed
SkipSectionStart ==
    /\ pc = "loop"
    /\ state.fragment_index < U16_MAX + SkipOver
    /\ \E name \in SectionNames :
          state' = visited_section_start(state, name)
    /\ UNCHANGED <<pc, error>>
    /\ SkipStays

\* a section end tag is parsed
SkipSectionEnd ==
    /\ pc = "loop"
    /\ \E name \in SectionNames :
          LET v == visited_section_end(state, name)
          IN  /\ state' = v.st
              /\ pc' = CASE v.r = "Ok" -> "loop"
                         [] v.r = "Err" -> "error"
                         [] v.r = "Panic" -> "panic"
              /\ error' = IF v.r = "Err"
                          THEN from_internal("ParseErrorMismatchedSectionEndTag",
                                             <<>>)
                          ELSE error
    /\ SkipStays

\* the end of the input
SkipEnd ==
    /\ pc = "loop"
    /\ pc' = IF still_expecting_section_ends(state) THEN "error" ELSE "parsed"
    /\ error' = IF still_expecting_section_ends(state)
                THEN from_internal("ParseErrorUnclosedSectionTags", <<>>)
                ELSE error
    /\ UNCHANGED state
    /\ SkipStays

SkipNext ==
    \/ SkipFragment
    \/ SkipSectionStart
    \/ SkipSectionEnd
    \/ SkipEnd

SkipSpec == SkipInit /\ [][SkipNext]_vars

-----------------------------------------------------------------------------
(* resolve_value on drawn paths and scope stacks *)

\* the longest scope stack drawn
MaxScopes == 2

ParseIdle ==
    /\ source = <<>>
    /\ input = <<>>
    /\ state = NewState
    /\ fragments = <<>>
    /\ error = NoError

KeyA == <<"a">>
KeyB == <<"b">>
KeyK == <<"k">>

ResolvePaths ==
    {<<".">>, KeyA, KeyB, KeyK, <<"0">>, <<"1">>,
     <<"a", ".", "b">>, <<"a", ".", "k">>, <<"k", ".", "a">>, <<"a", ".", "0">>}

ResolveValues ==
    {Null, Bool(TRUE), PosInt(1), Str(<<"s">>), EmptyObj, Arr(<<>>),
     Arr(<<Str(<<"e">>)>>),
     Obj1(KeyA, PosInt(1)),
     Obj1(KeyB, Str(<<"v">>)),
     Obj1(KeyA, Obj1(KeyB, Str(<<"w">>))),
     Obj1(KeyA, Arr(<<Bool(FALSE)>>))}

ScopeStacks == UNION {[1..n -> ResolveValues] : n \in 1..MaxScopes}

ResolveInit ==
    /\ call \in [path : ResolvePaths, scopes : ScopeStacks]
    /\ ret = NoValue
    /\ pc = "call"
    /\ ParseIdle
    /\ RenderIdle

\* resolve_value(path, scopes) is called and returns
ResolveCall ==
    /\ pc = "call"
    /\ ret' = resolve_value(call.path, call.scopes)
    /\ pc' = "returned"
    /\ UNCHANGED <<parseVars, error, renderVars, call>>

ResolveNext == ResolveCall

ResolveSpec == ResolveInit /\ [][ResolveNext]_vars

-----------------------------------------------------------------------------
(* A variable tag rendered with and without the escape filter *)

\* the longest string drawn
MaxEscapeLen == 3

EscapeAlphabet == {"&", "<", ">", "\"", "'", "g"}

EscapeStrings == UNION {[1..n -> EscapeAlphabet] : n \in 0..MaxEscapeLen}

\* s with each escaped character replaced by its entity
RECURSIVE Replaced(_)
Replaced(s) ==
    IF s = <<>> THEN <<>>
    ELSE (IF Head(s) \in EscapedChars THEN Entity(Head(s)) ELSE <<Head(s)>>)
         \o Replaced(Tail(s))

KeyX == <<"x">>

\* _render on an EscapedVariable (escape) or UnescapedVariable fragment
render_variable(name, stack, w, escape) ==
    write_value(resolve_value(name, stack), w, escape)

EscapeInit ==
    /\ \E s \in EscapeStrings : call = [s |-> s, replaced |-> Replaced(s)]
    /\ ret = [done |-> {}, escaped |-> <<>>, raw |-> <<>>]
    /\ pc = "call"
    /\ ParseIdle
    /\ RenderIdle

\* {{ x }} is rendered with x = s
EscapeRenderEscaped ==
    /\ "escaped" \notin ret.done
    /\ ret' = [ret EXCEPT
                 !.done = @ \cup {"escaped"},
                 !.escaped = render_variable(KeyX, <<Obj1(KeyX, Str(call.s))>>,
                                             <<>>, TRUE)]
    /\ UNCHANGED <<parseVars, pc, error, renderVars, call>>

\* {{{ x }}} is rendered with x = s'
EscapeRenderUnescaped ==
    /\ "raw" \notin ret.done
    /\ ret' = [ret EXCEPT
                 !.done = @ \cup {"raw"},
                 !.raw = render_variable(KeyX,
                                         <<Obj1(KeyX, Str(call.replaced))>>,
                                         <<>>, FALSE)]
    /\ UNCHANGED <<parseVars, pc, error, renderVars, call>>

EscapeNext ==
    \/ EscapeRenderEscaped
    \/ EscapeRenderUnescaped

EscapeSpec == EscapeInit /\ [][EscapeNext]_vars

-----------------------------------------------------------------------------
(* Template::render and _render.  The recursion of _render is a stack of
   frames, one per invocation: the fragments and skips it was handed, its
   frag_idx and section_idx, and, while it iterates over an array in a
   Section, the elements still to come. *)

\* the longest source of a rendered template, in chunks, and the longest
\* literal-only source, in characters
MaxRenderChunks == 3
MaxLiteralLen == 3

LiteralChars == {"x", "{", "}", " "}

\* the sources without "{{"
LiteralSources ==
    {s \in UNION {[1..n -> LiteralChars] : n \in 0..MaxLiteralLen} :
        FindSlice(s, OpenEscaped) = -1}

\* longer templates: nested sections, and partials in and next to sections
NestedSources ==
    {Flatten(<<TagSecA, TagInvB, LitX, TagEndB, TagEscA, TagEndA, TagUnescDot>>),
     Flatten(<<TagSecA, TagSecA, LitX, TagEndA, TagEndA, LitX>>),
     Flatten(<<TagPartialP, TagSecA, LitX, TagEndA>>),
     Flatten(<<TagInvB, TagSecA, TagPartialP, TagEndA, TagEndB, LitX>>),
     Flatten(<<TagSecA, TagUnescDot, TagPartialP, TagEndA, LitX>>),
     Flatten(<<TagSecA, TagInvB, TagEndB, TagEndA, TagInvB, LitX, TagEndB>>)}

RenderSources ==
    {Flatten(cs) : cs \in ChunkSeqs(MaxRenderChunks)}
    \cup LiteralSources \cup NestedSources

\* the loader (): TemplateLoader for the unit type
UnitLoader == Loader("Unit", <<>>)

\* a HashMapLoader holding these templates
HashMapLoader(templates) == Loader("HashMapLoader", templates)

Entry(name, template) == [name |-> name, template |-> template]

PartialP == <<"p">>

PartialQ == <<"q">>
TagPartialQ == <<"{", "{", ">", "q", "}", "}">>

\* the sources of the templates the loaders hold
PartialTexts ==
    {TagEscA \o LitX,
     LitX,
     TagSecA \o TagEscA \o TagEndA \o LitX,
     LitX \o TagPartialQ \o LitX,
     TagUnescDot}

Loaders ==
    {UnitLoader,
     HashMapLoader(<<Entry(PartialP, template_parse(TagEscA \o LitX).template)>>),
     HashMapLoader(<<Entry(PartialQ, template_parse(LitX).template)>>),
     HashMapLoader(<<Entry(PartialP,
         template_parse(TagSecA \o TagEscA \o TagEndA \o LitX).template)>>),
     HashMapLoader(<<Entry(PartialP,
         template_parse(LitX \o TagPartialQ \o LitX).template)>>),
     HashMapLoader(<<Entry(PartialP,
         template_parse(LitX \o TagPartialQ \o LitX).template),
                     Entry(PartialQ, template_parse(TagUnescDot).template)>>)}

\* FileLoader: templates read from files, the parsed ones in an LruCache

MaxCacheSize == 2

PartialR == <<"r">>
PartialS == <<"s">>
PartialT == <<"t">>
TagPartialR == <<"{", "{", ">", "r", "}", "}">>
TagPartialS == <<"{", "{", ">", "s", "}", "}">>
TagPartialT == <<"{", "{", ">", "t", "}", "}">>
LoaderNames == {PartialP, PartialQ, PartialR, PartialS, PartialT}

\* the templates directory: p includes q and q includes t, which makes a
\* chain of three; q includes s and t includes r where b is falsy; p, q and
\* t parse, r does not, there is no file s
FileExists(name) == name \in {PartialP, PartialQ, PartialR, PartialT}
FileSource(name) ==
    IF name = PartialP THEN LitX \o TagPartialQ
    ELSE IF name = PartialQ
    THEN Flatten(<<TagSecA, TagEscA, TagPartialT, TagEndA,
                   TagInvB, TagPartialS, TagEndB>>)
    ELSE IF name = PartialT
    THEN Flatten(<<TagUnescDot, TagInvB, TagPartialR, TagEndB>>)
    ELSE <<"{", "{", "#", "}", "}">>

\* fs::read_to_string(templates_directory + name + templates_extension)
read_to_string(name) ==
    IF FileExists(name)
    THEN [ok |-> TRUE, source |-> FileSource(name), error |-> NoError]
    ELSE [ok |-> FALSE, source |-> <<>>,
          error |-> [kind |-> "IoError", name |-> name]]

\* a parse error that is left without the name of its template
set_name_leaves_unnamed(err, name) == err

\* MoostacheError::set_name
set_name(err, name) == [err EXCEPT !.name = name]

\* the entries of an LruCache, the most recently used first
Names(templates) == [i \in 1..Len(templates) |-> templates[i].name]
Position(templates, name) ==
    IF \E i \in 1..Len(templates) : templates[i].name = name
    THEN CHOOSE i \in 1..Len(templates) : templates[i].name = name
    ELSE 0
Without(templates, i) ==
    SubSeq(templates, 1, i - 1) \o SubSeq(templates, i + 1, Len(templates))

\* a lookup that leaves the order of the entries as it is
LruCache_get_keeps_order(templates, name) == templates

\* LruCache::get: the entry becomes the most recently used
LruCache_get(templates, name) ==
    LET i == Position(templates, name)
    IN  IF i = 0 THEN templates
        ELSE <<templates[i]>> \o Without(templates, i)

\* a cache that takes a new entry without giving one up
LruCache_put_keeps_all(templates, cap, name, template) ==
    LET i == Position(templates, name)
    IN  IF i # 0 THEN <<Entry(name, template)>> \o Without(templates, i)
        ELSE <<Entry(name, template)>> \o templates

\* LruCache::put: the value of a key that is there is replaced, a new key
\* takes the place of the least recently used entry when the cache is full;
\* the entry is the most recently used
LruCache_put(templates, cap, name, template) ==
    LET i == Position(templates, name)
    IN  IF i # 0 THEN <<Entry(name, template)>> \o Without(templates, i)
        ELSE IF Len(templates) >= cap
        THEN <<Entry(name, template)>> \o SubSeq(templates, 1, cap - 1)
        ELSE <<Entry(name, template)>> \o templates

\* a pop that empties the cache
LruCache_pop_all(templates, name) == <<>>


\* LruCache::pop
LruCache_pop(templates, name) ==
    LET i == Position(templates, name)
    IN  IF i = 0 THEN templates ELSE Without(templates, i)

\* struct FileLoader; shared are the names whose cached Rc<Template> has a
\* clone outside the cache (strong count above 1)
FileLoader(templates, cap) ==
    [t |-> "FileLoader", templates |-> templates, cap |-> cap, shared |-> {}]

\* the Rc of an entry that left the cache is no handle of a cached template
NameSet(templates) == {templates[i].name : i \in 1..Len(templates)}

NoTemplate == Template(<<>>, <<>>)

\* FileLoader::get(name): what it returns and the loader it leaves
Got(ok, template, err, l) ==
    [ok |-> ok, template |-> template, error |-> err, loader |-> l]
\* fs::read_to_string(..).map_err(from_io)?, Template::parse(source)
\* .map_err(set_name)?: the template of the file of this name, or the error
load(name) ==
    LET read == read_to_string(name)
        parsed == template_parse(read.source)
    IN  IF ~read.ok
        THEN [ok |-> FALSE, template |-> NoTemplate, error |-> read.error]
        ELSE IF parsed.pc # "parsed"
        THEN [ok |-> FALSE, template |-> NoTemplate,
              error |-> set_name(parsed.error, name)]
        ELSE [ok |-> TRUE, template |-> parsed.template, error |-> NoError]

\* what the files of the directory load as
Loaded == [name \in LoaderNames |-> load(name)]

\* a loader that loads nothing more once its cache is full
GetOrLoad_full_loads_nothing(l, name, file) ==
    LET i == Position(l.templates, name)
    IN  IF i # 0
        THEN Got(TRUE, l.templates[i].template, NoError,
                 [l EXCEPT !.templates = LruCache_get(@, name)])
        ELSE IF ~file.ok
        THEN Got(FALSE, NoTemplate, file.error, l)
        ELSE IF Len(l.templates) >= l.cap
        THEN Got(FALSE, NoTemplate, [kind |-> "IoError", name |-> name], l)
        ELSE Got(TRUE, file.template, NoError,
                 [l EXCEPT !.templates =
                     LruCache_put(@, l.cap, name, file.template)])

\* a loader that gives up the least recently used entry of a full cache
\* before it reads the file
GetOrLoad_makes_room_first(l, name, file) ==
    LET i == Position(l.templates, name)
    IN  IF i # 0
        THEN Got(TRUE, l.templates[i].template, NoError,
                 [l EXCEPT !.templates = LruCache_get(@, name)])
        ELSE IF ~file.ok
        THEN Got(FALSE, NoTemplate, file.error,
                 [l EXCEPT !.templates =
                     IF Len(@) >= l.cap THEN SubSeq(@, 1, l.cap - 1) ELSE @])
        ELSE Got(TRUE, file.template, NoError,
                 [l EXCEPT !.templates =
                     LruCache_put(@, l.cap, name, file.template),
                           !.shared = @ \cap NameSet(
                               LruCache_put(l.templates, l.cap, name,
                                            file.template))])


\* FileLoader::get(name), file being what the file of this name loads as
GetOrLoad(l, name, file) ==
    LET i == Position(l.templates, name)
    IN  IF i # 0
        THEN Got(TRUE, l.templates[i].template, NoError,
                 [l EXCEPT !.templates = LruCache_get(@, name)])
        ELSE IF ~file.ok
        THEN Got(FALSE, NoTemplate, file.error, l)
        ELSE Got(TRUE, file.template, NoError,
                 [l EXCEPT !.templates =
                     LruCache_put(@, l.cap, name, file.template),
                           !.shared = @ \cap NameSet(
                               LruCache_put(l.templates, l.cap, name,
                                            file.template))])

FileLoader_get(l, name) == GetOrLoad(l, name, Loaded[name])

\* TemplateLoader::get of (), of HashMapLoader and of FileLoader:
\* [ok, template, error], and the loader as the call leaves it
loader_get(l, name) ==
    IF l.t = "FileLoader" THEN FileLoader_get(l, name)
    ELSE IF l.t = "HashMapLoader" /\ \E i \in 1..Len(l.templates) :
                                    l.templates[i].name = name
    THEN Got(TRUE,
             l.templates[CHOOSE i \in 1..Len(l.templates) :
                             l.templates[i].name = name].template,
             NoError, l)
    ELSE Got(FALSE, NoTemplate,
             [kind |-> "LoaderErrorTemplateNotFound", name |-> name], l)

RenderData ==
    {Null, EmptyObj, Str(<<"<">>), Arr(<<PosInt(1), Str(<<"s">>)>>),
     Obj1(KeyA, Str(<<"&">>)),
     Obj1(KeyA, Arr(<<PosInt(1), Null>>)),
     Obj1(KeyA, Obj1(KeyA, PosInt(2))),
     Obj1(KeyA, Arr(<<Str(<<"<">>), PosInt(2)>>)),
     Obj1(KeyA, Null), Obj1(KeyA, Bool(FALSE)), Obj1(KeyA, PosInt(0)),
     Obj1(KeyA, Str(<<>>)), Obj1(KeyA, Arr(<<>>)), Obj1(KeyA, EmptyObj),
     Obj1(KeyA, PosInt(7)), Obj1(KeyA, Float(0)),
     Obj1(KeyB, Null), Obj1(KeyB, Bool(FALSE)), Obj1(KeyB, PosInt(0)),
     Obj1(KeyB, Str(<<>>)), Obj1(KeyB, Arr(<<>>)), Obj1(KeyB, EmptyObj),
     Obj1(KeyB, Bool(TRUE)), Obj1(KeyB, Float(0)), Obj1(KeyB, Str(<<"s">>)),
     Obj1(KeyB, Arr(<<Null>>)),
     Obj(<<KeyA, KeyB>>, <<Bool(TRUE), NegInt(-1)>>),
     Obj(<<KeyA, KeyB>>, <<PosInt(1), Bool(FALSE)>>)}

\* one invocation of _render
Frame(frags, skips) ==
    [frags |-> frags, skips |-> skips, frag_idx |-> 0, section_idx |-> 0,
     iter |-> <<>>]

Top == frames[Len(frames)]
TopFrag == Top.frags[Top.frag_idx + 1]
Callers == SubSeq(frames, 1, Len(frames) - 1)

\* the top frame is at a fragment of this kind
At(kind) ==
    /\ pc = "render"
    /\ Top.frag_idx < Len(Top.frags)
    /\ TopFrag.kind = kind

RenderInit ==
    /\ source \in RenderSources
    /\ input = source
    /\ state = NewState
    /\ fragments = <<>>
    /\ pc = "start"
    /\ error = NoError
    /\ RenderIdle
    /\ UnitIdle

\* Template::render(loader, value, writer) on the parsed template
RenderStart ==
    /\ pc = "parsed"
    /\ data' \in RenderData
    /\ loader' \in Loaders
    /\ scopes' = <<data'>>
    /\ frames' = <<Frame(fragments, state.section_skips)>>
    /\ writer' = <<>>
    /\ pc' = "render"
    /\ UNCHANGED <<parseVars, error, unitVars>>

RenderStays == UNCHANGED <<parseVars, data, loader, unitVars>>

\* the top frame moves on by nf fragments and ns sections
Advance(nf, ns) ==
    [frames EXCEPT ![Len(frames)].frag_idx = @ + nf,
                   ![Len(frames)].section_idx = @ + ns,
                   ![Len(frames)].iter = <<>>]

RenderLiteral ==
    /\ At("Literal")
    /\ writer' = write_all(writer, TopFrag.s)
    /\ frames' = Advance(1, 0)
    /\ UNCHANGED <<pc, error, scopes>>
    /\ RenderStays

RenderEscapedVariable ==
    /\ At("EscapedVariable")
    /\ writer' = render_variable(TopFrag.s, scopes, writer, TRUE)
    /\ frames' = Advance(1, 0)
    /\ UNCHANGED <<pc, error, scopes>>
    /\ RenderStays

RenderUnescapedVariable ==
    /\ At("UnescapedVariable")
    /\ writer' = render_variable(TopFrag.s, scopes, writer, FALSE)
    /\ frames' = Advance(1, 0)
    /\ UNCHANGED <<pc, error, scopes>>
    /\ RenderStays

\* locals whose body takes the skip slice from the entry of the section
\* itself instead of the one behind it
SectionLocals_body_from_own_entry ==
    LET indexed == Top.section_idx < Len(Top.skips)
        skip == IF indexed THEN Top.skips[Top.section_idx + 1] ELSE ZeroSkip
        start_frag == Top.frag_idx + 1
        end_frag == start_frag + skip.nested_fragments
        start_section == Top.section_idx
        end_section == start_section + skip.nested_sections
    IN  [resolved_value |-> resolve_value(TopFrag.s, scopes),
         indexed |-> indexed,
         sliced |-> end_frag <= Len(Top.frags) /\ end_section <= Len(Top.skips),
         skip |-> skip,
         body |-> Frame(SubSeq(Top.frags, start_frag + 1, end_frag),
                        SubSeq(Top.skips, start_section + 1, end_section))]


\* the locals of the Section and InvertedSection arms; an index past the
\* end of skips, frags[start_frag..end_frag] or skips[start..end] past the
\* end of the slice, is a panic
SectionLocals ==
    LET indexed == Top.section_idx < Len(Top.skips)
        skip == IF indexed THEN Top.skips[Top.section_idx + 1] ELSE ZeroSkip
        start_frag == Top.frag_idx + 1
        end_frag == start_frag + skip.nested_fragments
        start_section == Top.section_idx + 1
        end_section == start_section + skip.nested_sections
    IN  [resolved_value |-> resolve_value(TopFrag.s, scopes),
         indexed |-> indexed,
         sliced |-> end_frag <= Len(Top.frags) /\ end_section <= Len(Top.skips),
         skip |-> skip,
         body |-> Frame(SubSeq(Top.frags, start_frag + 1, end_frag),
                        SubSeq(Top.skips, start_section + 1, end_section))]

\* the render panics: nothing is returned
RenderPanics ==
    /\ pc' = "panic"
    /\ UNCHANGED <<error, scopes, frames, writer>>

\* scopes.push(value); _render(&frags[..], &skips[..], ..) is entered, rest
\* being the elements the loop of the caller has still to visit
EnterBody(l, value, rest) ==
    /\ scopes' = Append(scopes, value)
    /\ frames' = Append([frames EXCEPT ![Len(frames)].iter = rest], l.body)
    /\ UNCHANGED <<pc, error, writer>>

\* a section passed by its start tag only
PassSection_start_tag_only(skip) == Advance(1, 1)

\* the section is passed: frag_idx and section_idx move behind it
PassSection(skip) ==
    Advance(1 + skip.nested_fragments, 1 + skip.nested_sections)

RenderSection ==
    /\ At("Section")
    /\ LET l == SectionLocals
       IN  IF ~l.indexed THEN RenderPanics
           ELSE IF is_truthy(l.resolved_value)
           THEN IF ~l.sliced THEN RenderPanics
                ELSE IF l.resolved_value.t = "Array"
                THEN EnterBody(l, Head(l.resolved_value.a),
                               Tail(l.resolved_value.a))
                ELSE EnterBody(l, l.resolved_value, <<>>)
           ELSE /\ frames' = PassSection(l.skip)
                /\ UNCHANGED <<pc, error, scopes, writer>>
    /\ RenderStays

RenderInvertedSection ==
    /\ At("InvertedSection")
    /\ LET l == SectionLocals
       IN  IF ~l.indexed THEN RenderPanics
           ELSE IF ~is_truthy(l.resolved_value)
           THEN IF ~l.sliced THEN RenderPanics
                ELSE EnterBody(l, l.resolved_value, <<>>)
           ELSE /\ frames' = PassSection(l.skip)
                /\ UNCHANGED <<pc, error, scopes, writer>>
    /\ RenderStays

\* a partial the loader has no template for is passed over
RenderPartial_missing_is_empty ==
    /\ At("Partial")
    /\ LET got == loader_get(loader, TopFrag.s)
       IN  IF got.ok
           THEN frames' = Append(frames, Frame(got.template.fragments,
                                               got.template.skips))
           ELSE frames' = Advance(1, 0)
    /\ UNCHANGED <<pc, error, scopes, writer>>
    /\ RenderStays

\* loader.get(path)?, then _render on the template of the partial
RenderPartial ==
    /\ At("Partial")
    /\ \E got \in {loader_get(loader, TopFrag.s)} :
          /\ loader' = got.loader
          /\ IF got.ok
             THEN /\ frames' = Append(frames, Frame(got.template.fragments,
                                                    got.template.skips))
                  /\ UNCHANGED <<pc, error>>
             ELSE /\ pc' = "failed"
                  /\ error' = got.error
                  /\ UNCHANGED frames
    /\ UNCHANGED <<scopes, writer>>
    /\ UNCHANGED <<parseVars, data, unitVars>>

\* the top frame has run through its fragments and returns Ok(())
Returns ==
    /\ pc = "render"
    /\ Top.frag_idx >= Len(Top.frags)

\* the _render called by Template::render returns: the render is done
RenderDone ==
    /\ Returns
    /\ Len(frames) = 1
    /\ pc' = "done"
    /\ UNCHANGED <<error, scopes, frames, writer>>
    /\ RenderStays

Caller == frames[Len(frames) - 1]
CallerFrag == Caller.frags[Caller.frag_idx + 1]

\* a section that leaves after the first element of its array
RenderSectionReturn_first_only ==
    /\ Returns
    /\ Len(frames) > 1
    /\ CallerFrag.kind \in {"Section", "InvertedSection"}
    /\ scopes' = SubSeq(scopes, 1, Len(scopes) - 1)
    /\ frames' = [Callers EXCEPT
                    ![Len(Callers)].frag_idx =
                        @ + 1 + Caller.skips[Caller.section_idx + 1]
                                    .nested_fragments,
                    ![Len(Callers)].section_idx =
                        @ + 1 + Caller.skips[Caller.section_idx + 1]
                                    .nested_sections,
                    ![Len(Callers)].iter = <<>>]
    /\ UNCHANGED <<pc, error, writer>>
    /\ RenderStays

\* a section over an array that renders the same element again and again
RenderSectionReturn_same_element ==
    /\ Returns
    /\ Len(frames) > 1
    /\ CallerFrag.kind \in {"Section", "InvertedSection"}
    /\ IF Caller.iter # <<>>
       THEN /\ scopes' = scopes
            /\ frames' = [frames EXCEPT
                            ![Len(frames)].frag_idx = 0,
                            ![Len(frames)].section_idx = 0]
       ELSE /\ scopes' = SubSeq(scopes, 1, Len(scopes) - 1)
            /\ frames' = [Callers EXCEPT
                            ![Len(Callers)].frag_idx =
                                @ + 1 + Caller.skips[Caller.section_idx + 1]
                                            .nested_fragments,
                            ![Len(Callers)].section_idx =
                                @ + 1 + Caller.skips[Caller.section_idx + 1]
                                            .nested_sections]
    /\ UNCHANGED <<pc, error, writer>>
    /\ RenderStays


\* a section that returns without scopes.pop()
RenderSectionReturn_without_pop ==
    /\ Returns
    /\ Len(frames) > 1
    /\ CallerFrag.kind \in {"Section", "InvertedSection"}
    /\ IF Caller.iter # <<>>
       THEN /\ scopes' = Append(scopes, Head(Caller.iter))
            /\ frames' = [frames EXCEPT
                            ![Len(frames) - 1].iter = Tail(@),
                            ![Len(frames)].frag_idx = 0,
                            ![Len(frames)].section_idx = 0]
       ELSE /\ scopes' = scopes
            /\ frames' = [Callers EXCEPT
                            ![Len(Callers)].frag_idx =
                                @ + 1 + Caller.skips[Caller.section_idx + 1]
                                            .nested_fragments,
                            ![Len(Callers)].section_idx =
                                @ + 1 + Caller.skips[Caller.section_idx + 1]
                                            .nested_sections]
    /\ UNCHANGED <<pc, error, writer>>
    /\ RenderStays


\* the body of a Section or InvertedSection returns: scopes.pop(), then the
\* next element of the array if there is one, else the section is passed
RenderSectionReturn ==
    /\ Returns
    /\ Len(frames) > 1
    /\ CallerFrag.kind \in {"Section", "InvertedSection"}
    /\ IF Caller.iter # <<>>
       THEN /\ scopes' = Append(SubSeq(scopes, 1, Len(scopes) - 1),
                                Head(Caller.iter))
            /\ frames' = [frames EXCEPT
                            ![Len(frames) - 1].iter = Tail(@),
                            ![Len(frames)].frag_idx = 0,
                            ![Len(frames)].section_idx = 0]
       ELSE /\ scopes' = SubSeq(scopes, 1, Len(scopes) - 1)
            /\ frames' = [Callers EXCEPT
                            ![Len(Callers)].frag_idx =
                                @ + 1 + Caller.skips[Caller.section_idx + 1]
                                            .nested_fragments,
                            ![Len(Callers)].section_idx =
                                @ + 1 + Caller.skips[Caller.section_idx + 1]
                                            .nested_sections]
    /\ UNCHANGED <<pc, error, writer>>
    /\ RenderStays

\* a partial whose return moves the section cursor of the includer as well
RenderPartialReturn_section_too ==
    /\ Returns
    /\ Len(frames) > 1
    /\ CallerFrag.kind = "Partial"
    /\ frames' = [Callers EXCEPT ![Len(Callers)].frag_idx = @ + 1,
                                 ![Len(Callers)].section_idx = @ + 1]
    /\ UNCHANGED <<pc, error, scopes, writer>>
    /\ RenderStays

\* the _render of a partial returns
RenderPartialReturn ==
    /\ Returns
    /\ Len(frames) > 1
    /\ CallerFrag.kind = "Partial"
    /\ frames' = [Callers EXCEPT ![Len(Callers)].frag_idx = @ + 1]
    /\ UNCHANGED <<pc, error, scopes, writer>>
    /\ RenderStays

Render ==
    \/ RenderStart
    \/ RenderLiteral
    \/ RenderEscapedVariable
    \/ RenderUnescapedVariable
    \/ RenderSection
    \/ RenderInvertedSection
    \/ RenderPartial
    \/ RenderDone
    \/ RenderSectionReturn
    \/ RenderPartialReturn

RenderNext == Parse \/ Render

RenderSpec == RenderInit /\ [][RenderNext]_vars

\* the render as a program that runs: a step that can be taken is taken.
\* The sources are those with sections in sections and partials in
\* sections, and one with a comment
FairSources == NestedSources \cup {TagComment \o LitX}

RenderFairInit ==
    /\ source \in FairSources
    /\ input = source
    /\ state = NewState
    /\ fragments = <<>>
    /\ pc = "start"
    /\ error = NoError
    /\ RenderIdle
    /\ UnitIdle

RenderFairSpec ==
    RenderFairInit /\ [][RenderNext]_vars /\ WF_vars(RenderNext)

-----------------------------------------------------------------------------
(* is_truthy on its own *)

MaxNumber == 6

\* the number -0.0: a float of value zero with the sign bit set
NegZero == Value("Float", TRUE, 0, <<>>, <<>>, <<>>)

TruthyNumbers ==
    {PosInt(n) : n \in 0..MaxNumber} \cup {NegInt(-n) : n \in 1..MaxNumber}
        \cup {Float(tenths) : tenths \in -MaxNumber..MaxNumber} \cup {NegZero}

TruthyScalars ==
    {Null, Bool(FALSE), Bool(TRUE), Str(<<>>), Str(<<"s">>), Str(<<"0">>)}
        \cup TruthyNumbers

TruthyValues ==
    TruthyScalars
        \cup {Arr(<<>>), EmptyObj, Arr(<<Arr(<<>>)>>), Obj1(<<>>, EmptyObj)}
        \cup {Arr(<<e>>) : e \in TruthyScalars}
        \cup {Obj1(KeyA, e) : e \in TruthyScalars}

TruthyInit ==
    /\ call \in [value : TruthyValues]
    /\ ret = NoValue
    /\ pc = "call"
    /\ ParseIdle
    /\ RenderIdle

\* is_truthy(value) is called and returns
TruthyCall ==
    /\ pc = "call"
    /\ ret' = Bool(is_truthy(call.value))
    /\ pc' = "returned"
    /\ UNCHANGED <<parseVars, error, renderVars, call>>

TruthyNext == TruthyCall

TruthySpec == TruthyInit /\ [][TruthyNext]_vars

-----------------------------------------------------------------------------
(* The operations of a FileLoader *)

Config(cache_size, is_dir) ==
    [op |-> "try_from", name |-> <<>>, template |-> NoTemplate,
     cache_size |-> cache_size, is_dir |-> is_dir]
Op(op, name, template) ==
    [op |-> op, name |-> name, template |-> template,
     cache_size |-> 0, is_dir |-> FALSE]

\* what an operation of the loader returns: Ok(template) / Err(error) of
\* get, Some(template) / None of insert and remove
Result(r, template, err) == [r |-> r, template |-> template, error |-> err]
NoResult == Result("", NoTemplate, NoError)

InsertedTemplates ==
    {template_parse(LitX).template, template_parse(TagUnescDot).template}

\* the names templates are inserted under: p has a file, s has none
InsertedNames == {PartialP, PartialS}

LoaderData ==
    {Null,
     Obj(<<KeyA, KeyB>>, <<Str(<<"<">>), Bool(TRUE)>>),
     Obj(<<KeyA, KeyB>>, <<Str(<<"<">>), Bool(FALSE)>>),
     Obj(<<KeyA, KeyB>>, <<Bool(FALSE), Bool(FALSE)>>),
     Obj(<<KeyA, KeyB>>, <<Arr(<<Str(<<"<">>), PosInt(1)>>), Bool(TRUE)>>)}

LoaderIdle ==
    /\ data = NoValue
    /\ scopes = <<>>
    /\ frames = <<>>
    /\ writer = <<>>

\* a FileLoader is about to be built from a LoaderConfig, or a
\* HashMapLoader from a HashMap of sources, which is empty
LoaderInit ==
    /\ \/ /\ call \in {Config(n, d) : n \in 0..MaxCacheSize, d \in BOOLEAN}
          /\ pc = "config"
       \/ /\ call = Op("try_from", <<>>, NoTemplate)
          /\ pc = "sources"
    /\ ret = NoResult
    /\ loader = NoLoader
    /\ ParseIdle
    /\ LoaderIdle

\* a call that renders nothing has no data and no writer
LoaderStays ==
    /\ data' = NoValue
    /\ writer' = <<>>
    /\ UNCHANGED <<parseVars, scopes, frames>>

\* FileLoader::try_from(LoaderConfig)
FileLoaderTryFrom ==
    /\ pc = "config"
    /\ IF call.cache_size = 0
       THEN /\ pc' = "error"
            /\ error' = [kind |-> "ConfigErrorNonPositiveCacheSize",
                         name |-> <<>>]
            /\ UNCHANGED loader
       ELSE IF ~call.is_dir
       THEN /\ pc' = "error"
            /\ error' = [kind |-> "ConfigErrorInvalidTemplatesDirectory",
                         name |-> <<>>]
            /\ UNCHANGED loader
       ELSE /\ pc' = "ready"
            /\ loader' = FileLoader(<<>>, call.cache_size)
            /\ UNCHANGED error
    /\ UNCHANGED <<call, ret>>
    /\ LoaderStays

\* FileLoader::get(name); the caller keeps the Rc it is given, or drops it
FileLoaderGet ==
    /\ pc = "ready"
    /\ \E name \in LoaderNames, keeps \in BOOLEAN :
          \E got \in {FileLoader_get(loader, name)} :
              /\ call' = Op("get", name, NoTemplate)
              /\ loader' = IF got.ok /\ keeps
                           THEN [got.loader EXCEPT !.shared = @ \cup {name}]
                           ELSE got.loader
              /\ ret' = IF got.ok THEN Result("Ok", got.template, NoError)
                        ELSE Result("Err", NoTemplate, got.error)
    /\ UNCHANGED <<pc, error>>
    /\ LoaderStays

\* the caller drops the Rc it kept from a get
FileLoaderDrop ==
    /\ pc = "ready"
    /\ \E name \in loader.shared :
          /\ call' = Op("drop", name, NoTemplate)
          /\ loader' = [loader EXCEPT !.shared = @ \ {name}]
    /\ ret' = NoResult
    /\ UNCHANGED <<pc, error>>
    /\ LoaderStays

\* Rc::into_inner of the Rc that put or pop gave back: the template when
\* this was the only Rc
Rc_into_inner(l, name) ==
    IF Position(l.templates, name) # 0 /\ name \notin l.shared
    THEN Result("Some", l.templates[Position(l.templates, name)].template,
                NoError)
    ELSE Result("None", NoTemplate, NoError)

\* FileLoader::insert(name, value)
FileLoaderInsert ==
    /\ pc = "ready"
    /\ \E name \in InsertedNames, value \in InsertedTemplates :
          /\ call' = Op("insert", name, value)
          /\ loader' = [loader EXCEPT
                          !.templates = LruCache_put(@, loader.cap, name, value),
                          !.shared = (@ \ {name}) \cap NameSet(
                              LruCache_put(loader.templates, loader.cap,
                                           name, value))]
          /\ ret' = Rc_into_inner(loader, name)
    /\ UNCHANGED <<pc, error>>
    /\ LoaderStays

\* FileLoader::remove(name)
FileLoaderRemove ==
    /\ pc = "ready"
    /\ \E name \in LoaderNames :
          /\ call' = Op("remove", name, NoTemplate)
          /\ loader' = [loader EXCEPT !.templates = LruCache_pop(@, name),
                                      !.shared = @ \ {name}]
          /\ ret' = Rc_into_inner(loader, name)
    /\ UNCHANGED <<pc, error>>
    /\ LoaderStays

\* TemplateLoader::render(name, value, writer) on the FileLoader:
\* self.get(name)?, then template.render(self, value, writer)
FileLoaderRender ==
    /\ pc = "ready"
    /\ \E name \in LoaderNames, value \in LoaderData :
          \E got \in {FileLoader_get(loader, name)} :
              /\ call' = Op("render", name, NoTemplate)
              /\ loader' = got.loader
              /\ data' = value
              /\ writer' = <<>>
              /\ IF got.ok
                 THEN /\ pc' = "render"
                      /\ scopes' = <<value>>
                      /\ frames' = <<Frame(got.template.fragments,
                                           got.template.skips)>>
                      /\ ret' = NoResult
                 ELSE /\ ret' = Result("Err", NoTemplate, got.error)
                      /\ UNCHANGED <<pc, scopes, frames>>
    /\ UNCHANGED <<parseVars, error>>

\* TemplateLoader::render returns what Template::render returned
FileLoaderRenderReturns ==
    /\ pc \in {"done", "failed"}
    /\ loader.t = "FileLoader"
    /\ ret' = IF pc = "done" THEN Result("Ok", NoTemplate, NoError)
              ELSE Result("Err", NoTemplate, error)
    /\ pc' = "ready"
    /\ error' = NoError
    /\ scopes' = <<>>
    /\ frames' = <<>>
    /\ UNCHANGED <<parseVars, data, loader, writer, call>>

\* HashMapLoader::try_from(HashMap<K, V>) with no sources
HashMapLoaderTryFrom ==
    /\ pc = "sources"
    /\ pc' = "map"
    /\ loader' = HashMapLoader(<<>>)
    /\ UNCHANGED <<call, ret, error>>
    /\ LoaderStays

\* HashMap::get(name).ok_or_else(|| LoaderErrorTemplateNotFound(name))
HashMap_get(templates, name) ==
    IF Position(templates, name) # 0
    THEN Result("Ok", templates[Position(templates, name)].template, NoError)
    ELSE Result("Err", NoTemplate,
                [kind |-> "LoaderErrorTemplateNotFound", name |-> name])

\* HashMapLoader::get(name)
HashMapLoaderGet ==
    /\ pc = "map"
    /\ \E name \in LoaderNames :
          /\ call' = Op("get", name, NoTemplate)
          /\ ret' = HashMap_get(loader.templates, name)
    /\ UNCHANGED <<pc, error, loader>>
    /\ LoaderStays

\* HashMap::insert and HashMap::remove on the entries of a HashMapLoader:
\* the value of a key that is there is replaced
HashMap_insert(templates, name, value) ==
    LET i == Position(templates, name)
    IN  IF i # 0 THEN [templates EXCEPT ![i] = Entry(name, value)]
        ELSE Append(templates, Entry(name, value))
HashMap_remove(templates, name) ==
    LET i == Position(templates, name)
    IN  IF i = 0 THEN templates ELSE Without(templates, i)
\* the Option<Template> that HashMap::insert and HashMap::remove return
HashMap_previous(templates, name) ==
    IF Position(templates, name) # 0
    THEN Result("Some", templates[Position(templates, name)].template,
                NoError)
    ELSE Result("None", NoTemplate, NoError)

\* HashMapLoader::insert(name, value)
HashMapLoaderInsert ==
    /\ pc = "map"
    /\ \E name \in InsertedNames, value \in InsertedTemplates :
          /\ call' = Op("insert", name, value)
          /\ loader' = [loader EXCEPT
                          !.templates = HashMap_insert(@, name, value)]
          /\ ret' = HashMap_previous(loader.templates, name)
    /\ UNCHANGED <<pc, error>>
    /\ LoaderStays

\* HashMapLoader::remove(name)
HashMapLoaderRemove ==
    /\ pc = "map"
    /\ \E name \in LoaderNames :
          /\ call' = Op("remove", name, NoTemplate)
          /\ loader' = [loader EXCEPT
                          !.templates = HashMap_remove(@, name)]
          /\ ret' = HashMap_previous(loader.templates, name)
    /\ UNCHANGED <<pc, error>>
    /\ LoaderStays

LoaderNext ==
    \/ FileLoaderTryFrom
    \/ HashMapLoaderTryFrom
    \/ HashMapLoaderGet
    \/ HashMapLoaderInsert
    \/ HashMapLoaderRemove
    \/ FileLoaderGet
    \/ FileLoaderInsert
    \/ FileLoaderRemove
    \/ FileLoaderDrop
    \/ FileLoaderRender
    \/ FileLoaderRenderReturns
    \/ RenderLiteral
    \/ RenderEscapedVariable
    \/ RenderUnescapedVariable
    \/ RenderSection
    \/ RenderInvertedSection
    \/ RenderPartial
    \/ RenderDone
    \/ RenderSectionReturn
    \/ RenderPartialReturn

LoaderSpec == LoaderInit /\ [][LoaderNext]_vars

-----------------------------------------------------------------------------
(* Properties of the parser *)

IsSection(frag) == frag.kind \in {"Section", "InvertedSection"}

\* the number of Section/InvertedSection fragments among frags[from..to]
SectionsIn(frags, from, to) ==
    Cardinality({i \in from..to : IsSection(frags[i])})

\* the skip table describes the fragment list: one entry per section
\* fragment, and the k-th section fragment, at index f, is followed by
\* nested_fragments fragments of its own, nested_sections of them sections
SkipTableFits(frags, skips) ==
    /\ Len(skips) = SectionsIn(frags, 1, Len(frags))
    /\ \A f \in 1..Len(frags) :
          IsSection(frags[f]) =>
              LET k == SectionsIn(frags, 1, f)
                  nf == skips[k].nested_fragments
              IN  /\ f + nf <= Len(frags)
                  /\ SectionsIn(frags, f + 1, f + nf) = skips[k].nested_sections

\* a section end tag accepted: the section it closes is the last one opened
\* and not yet closed, at fragment index f (0-based) the k-th section
\* (0-based); its skip entry becomes the count of the fragments that follow
\* fragment f, and of the sections among them; no other entry changes
SectionEndFillsSkip ==
    (pc = "loop" /\ StartsWith(input, OpenEnd) /\ pc' = "loop") =>
        LET start == state.section_starts[Len(state.section_starts)]
            f == start.fragment_index
            k == start.section_index
            n == Len(fragments)
        IN  /\ IsSection(fragments[f + 1])
            /\ SectionsIn(fragments, 1, f) = k
            /\ fragments' = fragments
            /\ state'.section_skips =
                 [state.section_skips EXCEPT ![k + 1] =
                    [nested_sections |-> SectionsIn(fragments, f + 2, n),
                     nested_fragments |-> n - (f + 1)]]

\* C2: in every successfully parsed template the skip table has one entry
\* per section fragment, and the entry of the k-th section fragment, at
\* index f, counts exactly the fragments between its opening tag and its
\* matching end tag (those at f+1 .. f+nested_fragments) and the section
\* fragments among them
C2_SkipTable ==
    [][/\ SectionEndFillsSkip
       /\ pc' = "parsed" => SkipTableFits(fragments', state'.section_skips)]_vars

\* a parsed template with a section that holds a nested section
C2_Witness ==
    /\ pc = "parsed"
    /\ \E k \in 1..Len(state.section_skips) :
          /\ state.section_skips[k].nested_sections >= 1
          /\ state.section_skips[k].nested_fragments >= 1

\* the path of a well-formed section end tag of the model's sources
EndTagPath(s) ==
    IF StartsWith(s, TagEndA) THEN <<"a">>
    ELSE IF StartsWith(s, TagEndB) THEN <<"b">>
    ELSE <<>>

InnermostOpen == state.section_starts[Len(state.section_starts)]

\* C6: a section end tag {{/ p }} is accepted only when a section is open
\* and p, without the whitespace around it, is the path of the innermost
\* open section; otherwise the parse fails with MismatchedSectionEndTag
C6_SectionEndMatch ==
    [][(pc = "loop" /\ EndTagPath(input) # <<>>) =>
          IF /\ state.section_starts # <<>>
             /\ InnermostOpen.name = EndTagPath(input)
          THEN /\ pc' = "loop"
               /\ error' = NoError
               /\ state'.section_starts =
                     SubSeq(state.section_starts, 1, Len(state.section_starts) - 1)
          ELSE /\ pc' = "error"
               /\ error' = [kind |-> "ParseErrorMismatchedSectionEndTag",
                            name |-> <<>>]]_vars

\* the parse has failed at {{/ b }} while another section was the innermost
C6_Witness ==
    /\ pc = "error"
    /\ error.kind = "ParseErrorMismatchedSectionEndTag"
    /\ StartsWith(input, TagEndB)
    /\ state.section_starts # <<>>
    /\ InnermostOpen.name = <<"a">>

\* C7: at the end of the input, with every tag so far accepted, an open
\* section makes the parse fail with UnclosedSectionTags; a successful
\* parse has no open section left
C7_UnclosedSections ==
    [][/\ (pc = "loop" /\ input = <<>> /\ state.section_starts # <<>>) =>
             /\ pc' = "error"
             /\ error' = [kind |-> "ParseErrorUnclosedSectionTags", name |-> <<>>]
       /\ pc' = "parsed" => state'.section_starts = <<>>]_vars

\* the parse has failed at the end of the input with a section open
C7_Witness ==
    /\ pc = "error"
    /\ error.kind = "ParseErrorUnclosedSectionTags"
    /\ input = <<>>
    /\ state.section_starts # <<>>
    /\ fragments # <<>>

\* the error kind that belongs to the tag opener at the head of s
OpenerKind(s) ==
    IF StartsWith(s, OpenSection) THEN "ParseErrorInvalidSectionStartTag"
    ELSE IF StartsWith(s, OpenInverted)
    THEN "ParseErrorInvalidInvertedSectionStartTag"
    ELSE IF StartsWith(s, OpenEnd) THEN "ParseErrorInvalidSectionEndTag"
    ELSE IF StartsWith(s, OpenUnescaped)
    THEN "ParseErrorInvalidUnescapedVariableTag"
    ELSE IF StartsWith(s, OpenComment) THEN "ParseErrorInvalidCommentTag"
    ELSE IF StartsWith(s, OpenPartial) THEN "ParseErrorInvalidPartialTag"
    ELSE IF StartsWith(s, OpenEscaped) THEN "ParseErrorInvalidEscapedVariableTag"
    ELSE "None"

\* C8: a malformed tag (an invalid path or a missing closer after a tag
\* opener) fails the whole parse with the error kind of that opener and an
\* empty template name; a parse that fails at a tag fails with the kind of
\* that tag's opener (or, at a well-formed end tag, as mismatched) and never
\* with the kind of another alternative
C8_HardErrorOfOpener ==
    [][/\ (pc = "loop" /\ input \in BadChunks) =>
             /\ pc' = "error"
             /\ error' = [kind |-> OpenerKind(input), name |-> <<>>]
       /\ (pc = "loop" /\ input # <<>> /\ pc' = "error") =>
             /\ error'.name = <<>>
             /\ \/ error'.kind = OpenerKind(input)
                \/ /\ StartsWith(input, OpenEnd)
                   /\ error'.kind = "ParseErrorMismatchedSectionEndTag"]_vars

\* the parse has failed at {{#&}} as an invalid section start tag
C8_Witness ==
    /\ pc = "error"
    /\ input = BadSecPath
    /\ error = [kind |-> "ParseErrorInvalidSectionStartTag", name |-> <<>>]
    /\ fragments # <<>>

-----------------------------------------------------------------------------
(* Properties of the skip counts on long templates *)

\* the section that a matching end tag would close holds more than 65 535
\* fragments or more than 65 535 sections
ClosesOverfullSection ==
    /\ state.section_starts # <<>>
    /\ \/ (state.fragment_index - 1) - InnermostOpen.fragment_index > U16_MAX
       \/ (state.section_index - 1) - InnermostOpen.section_index > U16_MAX

\* C3: the end of a section that holds more than 65 535 nested fragments or
\* more than 65 535 nested sections makes the parse return a parse error;
\* the parse never aborts
C3_OverflowIsParseError ==
    [][/\ pc' # "panic"
       /\ (pc = "loop" /\ ClosesOverfullSection
           /\ Len(state'.section_starts) < Len(state.section_starts))
             => pc' = "error"]_vars

\* the parse has aborted at the end tag of a section of 65 536 fragments
C3_Abort ==
    /\ pc = "panic"
    /\ state.fragment_index - 1 > U16_MAX
    /\ state.section_starts = <<>>

\* C4 as stated: in a parsed template every skip entry has
\* nested_fragments + nested_sections <= 65 535
C4_SumBounded ==
    pc = "parsed" =>
        \A k \in 1..Len(state.section_skips) :
            state.section_skips[k].nested_fragments
              + state.section_skips[k].nested_sections <= U16_MAX

\* C4: in a parsed template every skip entry has each of nested_fragments
\* and nested_sections at most 65 535, and no more nested sections than
\* nested fragments
C4_EachBounded ==
    pc = "parsed" =>
        \A k \in 1..Len(state.section_skips) :
            /\ state.section_skips[k].nested_fragments \in 0..U16_MAX
            /\ state.section_skips[k].nested_sections \in 0..U16_MAX
            /\ state.section_skips[k].nested_sections
                 <= state.section_skips[k].nested_fragments

\* a parsed template with a section of exactly 65 535 nested fragments, one
\* of them a section
C4_Witness ==
    /\ pc = "parsed"
    /\ \E k \in 1..Len(state.section_skips) :
          /\ state.section_skips[k].nested_fragments = U16_MAX
          /\ state.section_skips[k].nested_sections >= 1

-----------------------------------------------------------------------------
(* Properties of resolve_value and of the escape filter *)

\* the first segment of the path is found in the scope
FirstSegmentIn(scope, key) ==
    \/ scope.t = "Object" /\ HasKey(scope, key)
    \/ /\ scope.t = "Array"
       /\ ParseUsize(key) # -1
       /\ ParseUsize(key) < Len(scope.a)

\* C1: resolve_value returns Null for a path other than "." whose first
\* segment is found in no scope of a non-empty scope stack
C1_MissingIsNull ==
    (/\ pc = "returned"
     /\ call.path # <<".">>
     /\ \A i \in 1..Len(call.scopes) :
           ~FirstSegmentIn(call.scopes[i], Split(call.path)[1]))
        => ret = Null

\* resolve_value has returned the root scope for a key that no scope holds
C1_RootReturned ==
    /\ pc = "returned"
    /\ call.path = KeyK
    /\ call.scopes = <<Obj1(KeyA, PosInt(1))>>
    /\ ret = Obj1(KeyA, PosInt(1))

\* C9: {{ x }} with x = s writes the bytes that {{{ x }}} writes with
\* x = s', s' being s with & < > " ' replaced by their entities and every
\* other byte kept in place
C9_EscapeIsReplace ==
    ret.done = {"escaped", "raw"} =>
        /\ ret.escaped = ret.raw
        /\ ret.escaped = Replaced(call.s)

\* both tags rendered for a string with an escaped byte between plain ones
C9_Witness ==
    /\ ret.done = {"escaped", "raw"}
    /\ call.s = <<"g", "&", "g">>
    /\ ret.escaped = <<"g", "&", "a", "m", "p", ";", "g">>

-----------------------------------------------------------------------------
(* Properties of the renderer *)

Parsed == pc \in {"parsed", "render", "done", "failed"}

\* what C5 promises of a source without "{{"
LiteralRoundTrip ==
    /\ pc \notin {"error", "panic"}
    /\ Parsed => /\ fragments = <<Frag("Literal", source)>>
                 /\ state.section_skips = <<>>
    /\ pc \notin {"failed"}
    /\ (pc = "done" /\ data = Null) => writer = source

\* C5 as stated: every source s without "{{" parses into the one fragment
\* Literal(s) with an empty skip table, and rendered against null writes s
C5_AnyLiteral ==
    FindSlice(source, OpenEscaped) = -1 => LiteralRoundTrip

\* C5: every non-empty source s without "{{" parses into the one fragment
\* Literal(s) with an empty skip table, and rendered against null writes s
C5_NonEmptyLiteral ==
    (source # <<>> /\ FindSlice(source, OpenEscaped) = -1) => LiteralRoundTrip

\* a source with single braces has been rendered against null
C5_Witness ==
    /\ pc = "done"
    /\ data = Null
    /\ source = <<"x", "{", "}">>
    /\ writer = source

\* the values listed as not truthy, and some truthy ones
ListedFalsy ==
    {Null, Bool(FALSE), PosInt(0), Str(<<>>), Arr(<<>>), EmptyObj}
ListedTruthy == {Bool(TRUE), Str(<<"s">>), Arr(<<Null>>)}

InvertedSource == TagInvB \o LitX \o TagEndB

\* the step taken at an InvertedSection fragment: with a value that is not
\* truthy the body is entered, the value on top of the scope stack and no
\* element left to iterate over; with a truthy value the section is passed
InvertedStep ==
    At("InvertedSection") =>
        LET value == resolve_value(TopFrag.s, scopes)
            nested == Top.skips[Top.section_idx + 1].nested_fragments
        IN  IF ~is_truthy(value)
            THEN /\ Len(frames') = Len(frames) + 1
                 /\ scopes' = Append(scopes, value)
                 /\ frames'[Len(frames)].iter = <<>>
                 /\ frames'[Len(frames')].frags =
                        SubSeq(Top.frags, Top.frag_idx + 2,
                               Top.frag_idx + 1 + nested)
                 /\ frames'[Len(frames')].frag_idx = 0
            ELSE /\ Len(frames') = Len(frames)
                 /\ scopes' = scopes
                 /\ writer' = writer
                 /\ frames'[Len(frames)].frag_idx = Top.frag_idx + 1 + nested

\* the body of an InvertedSection returns: it is not entered again, the
\* scope is popped and the caller goes on behind the body
InvertedReturn ==
    (Returns /\ Len(frames) > 1 /\ CallerFrag.kind = "InvertedSection") =>
        /\ Len(frames') = Len(frames) - 1
        /\ scopes' = SubSeq(scopes, 1, Len(scopes) - 1)
        /\ frames'[Len(frames')].frag_idx =
              Caller.frag_idx + 1
                + Caller.skips[Caller.section_idx + 1].nested_fragments

\* {{^b}}x{{/ b }} rendered against {b: v}: x once for a listed falsy v,
\* nothing for a truthy v
InvertedOutcome ==
    (pc' = "done" /\ source = InvertedSource /\ data.t = "Object"
     /\ HasKey(data, KeyB)) =>
        /\ Get(data, KeyB) \in ListedFalsy => writer' = LitX
        /\ Get(data, KeyB) \in ListedTruthy => writer' = <<>>

\* C10: an inverted section renders its body exactly once when the value
\* resolved for its path is not truthy (null, false, 0, "", [], {}) and not
\* at all when it is truthy; it never iterates, and while the body is
\* rendered the resolved value is the innermost scope
C10_InvertedSection ==
    [][InvertedStep /\ InvertedReturn /\ InvertedOutcome]_vars

\* {{^b}}x{{/ b }} has written x for b = {}
C10_Witness ==
    /\ pc = "done"
    /\ source = InvertedSource
    /\ data = Obj1(KeyB, EmptyObj)
    /\ writer = LitX

-----------------------------------------------------------------------------
(* Properties of sections *)

\* the fragments of the body of the section the top frame is at
BodyOf(frame) ==
    SubSeq(frame.frags, frame.frag_idx + 2,
           frame.frag_idx + 1 + frame.skips[frame.section_idx + 1].nested_fragments)

\* the step at a Section fragment whose value is a non-empty array: the body
\* is entered with the first element as innermost scope, the others left to
\* come
ArraySectionEnters ==
    (At("Section") /\ resolve_value(TopFrag.s, scopes).t = "Array"
     /\ resolve_value(TopFrag.s, scopes).a # <<>>) =>
        LET array == resolve_value(TopFrag.s, scopes).a
        IN  /\ Len(frames') = Len(frames) + 1
            /\ scopes' = Append(scopes, array[1])
            /\ frames'[Len(frames)].iter = Tail(array)
            /\ frames'[Len(frames')].frags = BodyOf(Top)
            /\ frames'[Len(frames')].frag_idx = 0
            /\ writer' = writer

\* the body returns with elements left: the next element replaces the
\* innermost scope and the body starts again; with none left the scope is
\* popped and the section is passed
ArraySectionGoesOn ==
    (Returns /\ Len(frames) > 1 /\ CallerFrag.kind = "Section") =>
        IF Caller.iter # <<>>
        THEN /\ Len(frames') = Len(frames)
             /\ scopes' = Append(SubSeq(scopes, 1, Len(scopes) - 1),
                                 Head(Caller.iter))
             /\ frames'[Len(frames) - 1].iter = Tail(Caller.iter)
             /\ frames'[Len(frames)].frags = Top.frags
             /\ frames'[Len(frames)].frag_idx = 0
             /\ writer' = writer
        ELSE /\ Len(frames') = Len(frames) - 1
             /\ scopes' = SubSeq(scopes, 1, Len(scopes) - 1)
             /\ writer' = writer

ArraySource == TagSecA \o TagUnescDot \o TagEndA
ArrayLitSource == TagSecA \o LitX \o TagEndA

RECURSIVE Concat(_)
Concat(seqs) == IF seqs = <<>> THEN <<>> ELSE Head(seqs) \o Concat(Tail(seqs))

\* {{#a}}{{{.}}}{{/a}} against {a: [v1..vn]} writes v1 .. vn in this order,
\* and {{#a}}x{{/a}} writes n times x
ArraySectionOutcome ==
    (pc' = "done" /\ data.t = "Object" /\ HasKey(data, KeyA)
     /\ Get(data, KeyA).t = "Array" /\ Get(data, KeyA).a # <<>>) =>
        LET array == Get(data, KeyA).a
        IN  /\ source = ArraySource =>
                writer' = Concat([i \in 1..Len(array) |-> ValueBytes(array[i])])
            /\ source = ArrayLitSource =>
                writer' = Concat([i \in 1..Len(array) |-> LitX])

\* C11: a section over a non-empty array [v1..vn] renders its body n times,
\* in array order, the i-th time with vi as innermost scope, and the output
\* is the concatenation of the n renderings in that order
C11_ArraySection ==
    [][ArraySectionEnters /\ ArraySectionGoesOn /\ ArraySectionOutcome]_vars

\* {{#a}}{{{.}}}{{/a}} has written <2 for a = ["<", 2]
C11_Witness ==
    /\ pc = "done"
    /\ source = ArraySource
    /\ data = Obj1(KeyA, Arr(<<Str(<<"<">>), PosInt(2)>>))
    /\ writer = <<"<", "2">>

\* a truthy string, number, bool or object (the number zero written as a
\* float is left to C19)
TruthyScalarOrObject(value) ==
    /\ value.t \in {"String", "PosInt", "NegInt", "Float", "Bool", "Object"}
    /\ value \notin ListedFalsy
    /\ value # Float(0)

\* the step at a Section fragment: over a truthy string, number, bool or
\* object the body is entered with the value as innermost scope and nothing
\* left to iterate over; over a listed falsy value nothing is written and
\* the cursors move behind the extent of the section
PlainSectionStep ==
    At("Section") =>
        LET value == resolve_value(TopFrag.s, scopes)
            skip == Top.skips[Top.section_idx + 1]
        IN  /\ TruthyScalarOrObject(value) =>
                /\ Len(frames') = Len(frames) + 1
                /\ scopes' = Append(scopes, value)
                /\ frames'[Len(frames)].iter = <<>>
                /\ frames'[Len(frames')].frags = BodyOf(Top)
                /\ frames'[Len(frames')].frag_idx = 0
                /\ writer' = writer
            /\ value \in ListedFalsy =>
                /\ Len(frames') = Len(frames)
                /\ scopes' = scopes
                /\ writer' = writer
                /\ frames'[Len(frames)].frag_idx =
                      Top.frag_idx + 1 + skip.nested_fragments
                /\ frames'[Len(frames)].section_idx =
                      Top.section_idx + 1 + skip.nested_sections
                /\ frames'[Len(frames)].frags = Top.frags

NestedFalsySource ==
    Flatten(<<TagSecA, TagInvB, LitX, TagEndB, TagEscA, TagEndA, TagUnescDot>>)
NestedTwiceSource == Flatten(<<TagSecA, TagSecA, LitX, TagEndA, TagEndA, LitX>>)

\* {{#a}}x{{/a}} against {a: v} writes x once for a truthy string, number,
\* bool or object v and nothing for a listed falsy v; a falsy section with
\* sections in its body writes nothing, and what follows it is written
PlainSectionOutcome ==
    (pc' = "done" /\ data.t = "Object" /\ HasKey(data, KeyA)) =>
        LET value == Get(data, KeyA)
        IN  /\ (source = ArrayLitSource /\ TruthyScalarOrObject(value)) =>
                writer' = LitX
            /\ (source = ArrayLitSource /\ value \in ListedFalsy) =>
                writer' = <<>>
            /\ (source = NestedFalsySource /\ value \in ListedFalsy) =>
                writer' = ValueBytes(data)
            /\ (source = NestedTwiceSource /\ value \in ListedFalsy) =>
                writer' = LitX

C12_WitnessOnce ==
    /\ pc = "done"
    /\ source = ArrayLitSource
    /\ data = Obj1(KeyA, PosInt(7))
    /\ writer = LitX

-----------------------------------------------------------------------------
(* Properties of partials *)

\* _render on a template without partials, as the recursion it is: the
\* bytes in the writer when it returns
RECURSIVE render_fragments(_, _, _, _, _, _), render_elements(_, _, _, _, _)
render_fragments(frags, skips, frag_idx, section_idx, stack, w) ==
    IF frag_idx >= Len(frags) THEN w
    ELSE LET frag == frags[frag_idx + 1]
         IN  IF frag.kind = "Literal"
             THEN render_fragments(frags, skips, frag_idx + 1, section_idx,
                                   stack, write_all(w, frag.s))
             ELSE IF frag.kind \in {"EscapedVariable", "UnescapedVariable"}
             THEN render_fragments(frags, skips, frag_idx + 1, section_idx,
                      stack,
                      render_variable(frag.s, stack, w,
                                      frag.kind = "EscapedVariable"))
             ELSE IF frag.kind \in {"Section", "InvertedSection"}
             THEN LET skip == skips[section_idx + 1]
                      start_frag == frag_idx + 1
                      end_frag == start_frag + skip.nested_fragments
                      start_section == section_idx + 1
                      end_section == start_section + skip.nested_sections
                      value == resolve_value(frag.s, stack)
                      entered == IF frag.kind = "Section"
                                 THEN is_truthy(value)
                                 ELSE ~is_truthy(value)
                      elements == IF frag.kind = "Section" /\ value.t = "Array"
                                  THEN value.a
                                  ELSE <<value>>
                      written ==
                          IF entered
                          THEN render_elements(
                                   SubSeq(frags, start_frag + 1, end_frag),
                                   SubSeq(skips, start_section + 1, end_section),
                                   stack, elements, w)
                          ELSE w
                  IN  render_fragments(frags, skips,
                                       frag_idx + 1 + skip.nested_fragments,
                                       section_idx + 1 + skip.nested_sections,
                                       stack, written)
             ELSE w
render_elements(frags, skips, stack, elements, w) ==
    IF elements = <<>> THEN w
    ELSE render_elements(frags, skips, stack, Tail(elements),
             render_fragments(frags, skips, 0, 0,
                              Append(stack, Head(elements)), w))

\* s with every occurrence of pattern replaced by text
RECURSIVE ReplaceAll(_, _, _)
ReplaceAll(s, pattern, text) ==
    IF s = <<>> THEN <<>>
    ELSE IF StartsWith(s, pattern)
    THEN text \o ReplaceAll(Drop(s, Len(pattern)), pattern, text)
    ELSE <<Head(s)>> \o ReplaceAll(Tail(s), pattern, text)

\* the text a template of the loaders was parsed from
PartialTable ==
    {[text |-> text, template |-> template_parse(text).template] :
        text \in PartialTexts}
TextOf(template) == (CHOOSE e \in PartialTable : e.template = template).text

\* src with the tags of the partial of this name replaced by its text
InlinePartial(src, l, tag, name) ==
    IF loader_get(l, name).ok
    THEN ReplaceAll(src, tag, TextOf(loader_get(l, name).template))
    ELSE src

\* src with the partials p and q of the loader written out in place
Inlined(src, l) ==
    InlinePartial(InlinePartial(src, l, TagPartialP, PartialP),
                  l, TagPartialQ, PartialQ)

HasPartialTag(src) == FindSlice(src, TagPartialP) # -1

\* the step at a Partial fragment the loader has a template for: _render is
\* entered on the fragments and the skip table of that template, with
\* cursors of its own, the scope stack and the writer as they are
PartialEnters ==
    (At("Partial") /\ loader_get(loader, TopFrag.s).ok) =>
        LET template == loader_get(loader, TopFrag.s).template
        IN  /\ Len(frames') = Len(frames) + 1
            /\ frames'[Len(frames')].frags = template.fragments
            /\ frames'[Len(frames')].skips = template.skips
            /\ frames'[Len(frames')].frag_idx = 0
            /\ frames'[Len(frames')].section_idx = 0
            /\ Callers = SubSeq(frames', 1, Len(frames) - 1)
            /\ frames'[Len(frames)].frag_idx = Top.frag_idx
            /\ frames'[Len(frames)].section_idx = Top.section_idx
            /\ scopes' = scopes
            /\ writer' = writer

\* the partial returns: the includer has moved by one fragment, and by
\* nothing else
PartialReturns ==
    (Returns /\ Len(frames) > 1 /\ CallerFrag.kind = "Partial") =>
        /\ Len(frames') = Len(frames) - 1
        /\ frames'[Len(frames')].frag_idx = Caller.frag_idx + 1
        /\ frames'[Len(frames')].section_idx = Caller.section_idx
        /\ frames'[Len(frames')].frags = Caller.frags
        /\ frames'[Len(frames')].skips = Caller.skips
        /\ scopes' = scopes
        /\ writer' = writer

\* a template with {{>p}} has written what the template with the text of p
\* in the place of the tag writes against the same data
PartialOutcome ==
    (pc' = "done" /\ HasPartialTag(source)) =>
        LET template == template_parse(Inlined(source, loader)).template
        IN  writer' = render_fragments(template.fragments, template.skips,
                                       0, 0, <<data>>, <<>>)

\* C13: a Partial fragment naming p, the loader mapping p to T, writes what
\* T's fragments write with the same scope stack, at the place of the tag;
\* the partial has cursors and a skip table of its own and the includer
\* moves by one fragment
C13_PartialInline == [][PartialEnters /\ PartialReturns /\ PartialOutcome]_vars

\* {{#a}}{{{.}}}{{>p}}{{/a}}x with p = {{#a}}{{ a }}{{/a}}x and
\* a = {a: 2} has written {"a":2}2xx
C13_Witness ==
    /\ pc = "done"
    /\ source = Flatten(<<TagSecA, TagUnescDot, TagPartialP, TagEndA, LitX>>)
    /\ loader = HashMapLoader(<<Entry(PartialP,
           template_parse(TagSecA \o TagEscA \o TagEndA \o LitX).template)>>)
    /\ data = Obj1(KeyA, Obj1(KeyA, PosInt(2)))
    /\ writer = ValueBytes(Obj1(KeyA, PosInt(2))) \o <<"2", "x", "x">>

\* the error of a loader that has no template of this name
TemplateNotFound(name) ==
    [kind |-> "LoaderErrorTemplateNotFound", name |-> name]

\* the step at a Partial fragment the loader has no template for: the render
\* returns the error of the loader and writes nothing; a render fails in no
\* other way
PartialFails ==
    /\ (At("Partial") /\ ~loader_get(loader, TopFrag.s).ok) =>
          /\ pc' = "failed"
          /\ error' = loader_get(loader, TopFrag.s).error
          /\ error' = TemplateNotFound(TopFrag.s)
          /\ writer' = writer
    /\ pc' = "failed" =>
          /\ At("Partial")
          /\ ~loader_get(loader, TopFrag.s).ok
    /\ pc = "failed" => UNCHANGED vars

SectionPartialSource ==
    Flatten(<<TagSecA, TagUnescDot, TagPartialP, TagEndA, LitX>>)
DeepPartialSource ==
    Flatten(<<TagInvB, TagSecA, TagPartialP, TagEndA, TagEndB, LitX>>)
LoaderOfPWithoutQ ==
    HashMapLoader(<<Entry(PartialP,
        template_parse(LitX \o TagPartialQ \o LitX).template)>>)

\* what has been written when the render fails: the fragments before the
\* partial that failed, in the first round of the section, and no more
PartialFailureOutcome ==
    pc' = "failed" =>
        /\ (source = SectionPartialSource /\ loader = UnitLoader
            /\ data = Obj1(KeyA, Arr(<<Str(<<"<">>), PosInt(2)>>))) =>
               /\ writer' = <<"<">>
               /\ error' = TemplateNotFound(PartialP)
        /\ (source = SectionPartialSource /\ loader = LoaderOfPWithoutQ
            /\ data = Obj1(KeyA, Arr(<<Str(<<"<">>), PosInt(2)>>))) =>
               /\ writer' = <<"<", "x">>
               /\ error' = TemplateNotFound(PartialQ)
        /\ (source = DeepPartialSource /\ loader = LoaderOfPWithoutQ
            /\ data = Obj(<<KeyA, KeyB>>, <<PosInt(1), Bool(FALSE)>>)) =>
               /\ writer' = <<"x">>
               /\ error' = TemplateNotFound(PartialQ)
               /\ Len(frames') = 4

\* C14: when loader.get fails for a partial reached during render, the
\* render stops at that fragment and returns the error of the loader as it
\* is; nothing behind the partial is written, however deep in sections and
\* partials it is
C14_PartialError == [][PartialFails /\ PartialFailureOutcome]_vars

\* {{^b}}{{#a}}{{>p}}{{/a}}{{/ b }}x with p = x{{>q}}x and no q has failed
\* on q, in the partial p in two sections, behind the first x
C14_Witness ==
    /\ pc = "failed"
    /\ source = DeepPartialSource
    /\ loader = LoaderOfPWithoutQ
    /\ data = Obj(<<KeyA, KeyB>>, <<PosInt(1), Bool(FALSE)>>)
    /\ error = TemplateNotFound(PartialQ)
    /\ writer = <<"x">>

\* the parsed template has a Partial fragment
ContainsPartial ==
    \E i \in 1..Len(fragments) : fragments[i].kind = "Partial"

\* C15: render_no_partials, which renders with the loader (), returns an
\* error whenever the template contains a partial tag, whatever the data
C15_NoPartialsFails ==
    (loader = UnitLoader /\ ContainsPartial) => pc # "done"

\* {{#a}}{{>p}}{{/a}} has been rendered with the loader () against
\* {a: false}: Ok(()), nothing written
C15_RenderedOk ==
    /\ pc = "done"
    /\ loader = UnitLoader
    /\ source = Flatten(<<TagSecA, TagPartialP, TagEndA>>)
    /\ ContainsPartial
    /\ data = Obj1(KeyA, Bool(FALSE))
    /\ error = NoError
    /\ writer = <<>>

-----------------------------------------------------------------------------
(* Properties of the lookup *)

\* the first segment is absent from the scope: an object without the key, an
\* array and a segment that is no index, or a scope that is not keyed
Absent(scope, key) ==
    \/ scope.t = "Object" /\ ~HasKey(scope, key)
    \/ scope.t = "Array" /\ ParseUsize(key) = -1
    \/ scope.t \notin {"Object", "Array"}

\* the scopes of the stack that contain the first segment, and the nearest
Containing(stack, key) == {i \in 1..Len(stack) : ~Absent(stack[i], key)}
Nearest(stack, key) ==
    CHOOSE i \in Containing(stack, key) :
        \A j \in Containing(stack, key) : j <= i

\* every segment of keys is there on the way down from value
RECURSIVE FullyIn(_, _)
FullyIn(value, keys) ==
    \/ keys = <<>>
    \/ /\ value.t = "Object"
       /\ HasKey(value, Head(keys))
       /\ FullyIn(Get(value, Head(keys)), Tail(keys))
    \/ /\ value.t = "Array"
       /\ ParseUsize(Head(keys)) # -1
       /\ ParseUsize(Head(keys)) < Len(value.a)
       /\ FullyIn(value.a[ParseUsize(Head(keys)) + 1], Tail(keys))

\* the value at the end of keys, all of them being there
RECURSIVE Descend(_, _)
Descend(value, keys) ==
    IF keys = <<>> THEN value
    ELSE IF value.t = "Object"
    THEN Descend(Get(value, Head(keys)), Tail(keys))
    ELSE Descend(value.a[ParseUsize(Head(keys)) + 1], Tail(keys))

\* resolve_value was called with a path other than "." whose first segment
\* some scope contains
ResolvedInSomeScope ==
    /\ pc = "returned"
    /\ call.path # <<".">>
    /\ Containing(call.scopes, Split(call.path)[1]) # {}

NearestScope == call.scopes[Nearest(call.scopes, Split(call.path)[1])]

\* C16: scopes from which the first segment of the path is absent are passed
\* over, innermost first, and the result is the value the path leads to in
\* the nearest enclosing scope that contains the first segment
C16_NearestScope ==
    (ResolvedInSomeScope /\ FullyIn(NearestScope, Split(call.path)))
        => ret = Descend(NearestScope, Split(call.path))

\* b was looked up in <<{b: "v"}, {a: 1}>>, {a: 1} innermost: "v"
C16_Witness ==
    /\ pc = "returned"
    /\ call.path = KeyB
    /\ call.scopes = <<Obj1(KeyB, Str(<<"v">>)), Obj1(KeyA, PosInt(1))>>
    /\ ret = Str(<<"v">>)

\* C17: once a scope contains the first segment, a later segment that is
\* missing, or a segment, the first one too, that is an index not below the
\* length of the array, makes the result Null; no outer scope is asked
C17_NoFallback ==
    (ResolvedInSomeScope /\ ~FullyIn(NearestScope, Split(call.path)))
        => ret = Null

\* a.b was looked up in <<{a: {b: "w"}}, {a: 1}>>: Null, though the outer
\* scope has a.b
C17_Witness ==
    /\ pc = "returned"
    /\ call.path = <<"a", ".", "b">>
    /\ call.scopes = <<Obj1(KeyA, Obj1(KeyB, Str(<<"w">>))), Obj1(KeyA, PosInt(1))>>
    /\ FullyIn(call.scopes[1], Split(call.path))
    /\ ret = Null

\* 0 was looked up in <<["e"], []>>: Null, though the outer array has it
C17_WitnessIndex ==
    /\ pc = "returned"
    /\ call.path = <<"0">>
    /\ call.scopes = <<Arr(<<Str(<<"e">>)>>), Arr(<<>>)>>
    /\ ret = Null

-----------------------------------------------------------------------------
(* Properties of is_truthy *)

IsInteger(value) == value.t \in {"PosInt", "NegInt"}

\* C18: is_truthy is false for null, false, the integer 0, "", [] and {},
\* and true for true, every integer other than 0 and every non-empty string,
\* array and object, whatever its elements are
C18_Truthiness ==
    pc = "returned" =>
        LET value == call.value
        IN  /\ value \in {Null, Bool(FALSE), PosInt(0), Str(<<>>), Arr(<<>>),
                          EmptyObj} => ret = Bool(FALSE)
            /\ value = Bool(TRUE) => ret = Bool(TRUE)
            /\ (IsInteger(value) /\ value.n # 0) => ret = Bool(TRUE)
            /\ (value.t = "String" /\ Len(value.s) > 0) => ret = Bool(TRUE)
            /\ (value.t = "Array" /\ Len(value.a) > 0) => ret = Bool(TRUE)
            /\ (value.t = "Object" /\ Len(value.k) > 0) => ret = Bool(TRUE)

\* is_truthy has returned true for {"a": null}
C18_Witness ==
    /\ pc = "returned"
    /\ call.value = Obj1(KeyA, Null)
    /\ ret = Bool(TRUE)

\* C19: every number equal to zero is falsy, however it is represented
\* (0, 0.0, -0.0)
C19_ZeroIsFalsy ==
    (pc = "returned" /\ IsNumber(call.value) /\ call.value.n = 0)
        => ret = Bool(FALSE)

\* is_truthy has returned true for 0.0
C19_FloatZeroTruthy ==
    /\ pc = "returned"
    /\ call.value = Float(0)
    /\ ret = Bool(TRUE)

-----------------------------------------------------------------------------
(* Properties of the FileLoader *)

\* LoaderConfig with cache_size 0 gives no loader but the error
\* ConfigErrorNonPositiveCacheSize; a loader that is built has the capacity
\* of the configuration and nothing cached
CacheSizeIsPositive ==
    pc = "config" =>
        /\ call.cache_size = 0 =>
              /\ pc' = "error"
              /\ error'.kind = "ConfigErrorNonPositiveCacheSize"
              /\ loader' = NoLoader
        /\ pc' = "ready" =>
              /\ call.cache_size >= 1
              /\ loader'.cap = call.cache_size
              /\ loader'.templates = <<>>

\* get, insert, remove and render, at each of its steps, leave the capacity
\* alone and the cache with no more templates than that, each under a name
\* of its own
CacheStaysBounded ==
    pc \in {"ready", "render", "done", "failed"} =>
        /\ loader'.cap = loader.cap
        /\ Len(loader'.templates) <= loader.cap
        /\ \A i, j \in 1..Len(loader'.templates) :
              loader'.templates[i].name = loader'.templates[j].name => i = j

\* C20: after any sequence of get, insert, remove and render on a FileLoader
\* built with cache_size N >= 1 the cache holds at most N templates, and no
\* FileLoader is built with cache_size 0
C20_CacheBounded == [][CacheSizeIsPositive /\ CacheStaysBounded]_vars

\* a get has loaded q into a cache of capacity 2 that holds an inserted
\* template as well
C20_Witness ==
    /\ pc = "ready"
    /\ loader.cap = MaxCacheSize
    /\ Len(loader.templates) = loader.cap
    /\ call.op = "get"
    /\ call.name = PartialQ
    /\ ret.r = "Ok"
    /\ loader.templates[1] = Entry(PartialQ, template_parse(FileSource(PartialQ)).template)
    /\ loader.templates[2].name = PartialS

\* p, which includes q, which includes t, has been rendered through a cache
\* of capacity 1: x&lt;< is written and t is what the cache holds
C20_WitnessRender ==
    /\ pc = "ready"
    /\ loader.cap = 1
    /\ call.op = "render"
    /\ call.name = PartialP
    /\ data = Obj(<<KeyA, KeyB>>, <<Str(<<"<">>), Bool(TRUE)>>)
    /\ ret.r = "Ok"
    /\ writer = <<"x", "&", "l", "t", ";", "<">>
    /\ Names(loader.templates) = <<PartialT>>

\* a step of FileLoader::get
IsGet == pc = "ready" /\ call'.op = "get"

\* the entries other than the one of this name, in their order
Others(templates, name) ==
    SelectSeq(templates, LAMBDA e : e.name # name)

\* the entry of this name
Cached(templates, name) ==
    CHOOSE e \in {templates[i] : i \in 1..Len(templates)} : e.name = name

IsCached(templates, name) ==
    \E i \in 1..Len(templates) : templates[i].name = name

\* get of a cached name returns the cached template, whatever the file
\* holds, and the entry becomes the first; the others keep their order
GetHit ==
    (IsGet /\ IsCached(loader.templates, call'.name)) =>
        /\ ret' = Result("Ok", Cached(loader.templates, call'.name).template,
                         NoError)
        /\ loader'.templates =
              <<Cached(loader.templates, call'.name)>>
                  \o Others(loader.templates, call'.name)

\* get of a name that is not cached and whose file loads: the template of
\* the file is returned and becomes the first entry; of the others the last
\* one, and no other, goes when the cache was full
GetMiss ==
    (IsGet /\ ~IsCached(loader.templates, call'.name)
     /\ FileExists(call'.name)
     /\ template_parse(FileSource(call'.name)).pc = "parsed") =>
        LET template == template_parse(FileSource(call'.name)).template
            kept == IF Len(loader.templates) = loader.cap
                    THEN SubSeq(loader.templates, 1, loader.cap - 1)
                    ELSE loader.templates
        IN  /\ ret' = Result("Ok", template, NoError)
            /\ loader'.templates = <<Entry(call'.name, template)>> \o kept

\* C21: get of a cached name returns the cached template without reading
\* the file and makes it the most recently used; get of another name loads
\* the file, makes the template the most recently used and, the cache being
\* full, evicts the least recently used entry and no other
C21_GetIsLru == [][GetHit /\ GetMiss]_vars

\* get(s) has returned the template inserted as s, for which there is no
\* file, and s is the first entry of the full cache, before p
C21_Witness ==
    /\ pc = "ready"
    /\ call.op = "get"
    /\ call.name = PartialS
    /\ ret.r = "Ok"
    /\ ret.template = template_parse(LitX).template
    /\ loader.cap = 2
    /\ Names(loader.templates) = <<PartialS, PartialP>>

\* a step of FileLoader::insert or FileLoader::remove
IsInsertOrRemove == pc = "ready" /\ call'.op \in {"insert", "remove"}

\* C22: insert(name, tpl) returns the template that was cached under name,
\* and remove(name) the template it removes, whenever name was in the cache,
\* and none otherwise, whether or not the caller still holds a handle that
\* an earlier get(name) returned
C22_ReturnsPrevious ==
    [][IsInsertOrRemove =>
          IF IsCached(loader.templates, call'.name)
          THEN ret' = Result("Some",
                          Cached(loader.templates, call'.name).template,
                          NoError)
          ELSE ret' = Result("None", NoTemplate, NoError)]_vars

\* when no handle of the cached template is held, insert and remove return
\* it; in either case the entry is replaced resp. gone
ReturnsPreviousUnlessShared ==
    [][IsInsertOrRemove =>
          /\ (IsCached(loader.templates, call'.name)
              /\ call'.name \notin loader.shared) =>
                ret' = Result("Some",
                           Cached(loader.templates, call'.name).template,
                           NoError)
          /\ (IsCached(loader.templates, call'.name)
              /\ call'.name \in loader.shared) =>
                ret' = Result("None", NoTemplate, NoError)
          /\ call'.op = "remove" =>
                ~IsCached(loader'.templates, call'.name)
          /\ call'.op = "insert" =>
                loader'.templates[1] = Entry(call'.name, call'.template)]_vars

\* the caller holds the handle that get(p) returned, p being cached
C22_HandleHeld ==
    /\ pc = "ready"
    /\ call.op = "get"
    /\ call.name = PartialP
    /\ ret.r = "Ok"
    /\ IsCached(loader.templates, PartialP)
    /\ PartialP \in loader.shared

\* what FileLoader::get(name) fails with when the name is not cached: the
\* io error (the file is not found) resp. the error of the parse of the
\* source of the file, either with this name
ParseErrorKind ==
    [name \in LoaderNames |-> template_parse(FileSource(name)).error.kind]
LoadError(name) ==
    IF FileExists(name)
    THEN [kind |-> ParseErrorKind[name], name |-> name]
    ELSE [kind |-> "IoError", name |-> name]

\* C23: a FileLoader get or render that cannot load a template N, the root
\* or a partial at any depth, returns an error that names N and not the
\* template that includes it: IoError(N) for a missing file, never
\* LoaderErrorTemplateNotFound, and the kind of the parse error with N for
\* a source that does not parse
C23_ErrorNamesTemplate ==
    [][/\ (pc = "ready" /\ pc' = "ready" /\ call'.op \in {"get", "render"}
           /\ ret'.r = "Err") =>
              ret'.error = LoadError(call'.name)
       /\ (pc = "render" /\ pc' = "failed") =>
              /\ TopFrag.kind = "Partial"
              /\ error' = LoadError(TopFrag.s)
              /\ error'.name # call.name
       /\ (pc = "failed" /\ pc' = "ready") =>
              /\ ret' = Result("Err", NoTemplate, error)
              /\ ret'.error.kind \in
                    {"IoError", "ParseErrorInvalidSectionStartTag"}]_vars

\* the render of p has failed three partials deep, p including q, q
\* including t and t including r, whose source does not parse: the error
\* is the parse error with the name r
C23_Witness ==
    /\ pc = "ready"
    /\ call.op = "render"
    /\ call.name = PartialP
    /\ Names(loader.templates) = <<PartialT>>
    /\ ret = Result("Err", NoTemplate,
                    [kind |-> "ParseErrorInvalidSectionStartTag",
                     name |-> PartialR])

\* the render of p has failed in q, which includes s, a file that is not
\* there: the error is the io error with the name s
C23_WitnessMissing ==
    /\ pc = "ready"
    /\ call.op = "render"
    /\ call.name = PartialP
    /\ ret = Result("Err", NoTemplate,
                    [kind |-> "IoError", name |-> PartialS])

\* the chain of the files p, q and t written out as one source, and what it
\* renders for each data value
ChainSource ==
    ReplaceAll(FileSource(PartialP), TagPartialQ,
               ReplaceAll(FileSource(PartialQ), TagPartialT,
                          FileSource(PartialT)))
ChainTemplate == template_parse(ChainSource).template
ChainWrites ==
    [value \in LoaderData |->
        render_fragments(ChainTemplate.fragments, ChainTemplate.skips,
                         0, 0, <<value>>, <<>>)]

\* the data with which neither the missing s nor the unparsable r is
\* reached: a is truthy, which includes t, and so is b
ChainData ==
    {value \in LoaderData :
        /\ value.t = "Object"
        /\ is_truthy(Get(value, KeyA))
        /\ is_truthy(Get(value, KeyB))}

\* the render of the file p by name is under way or has ended
RendersFileP ==
    /\ pc \in {"render", "done", "failed"}
    /\ call.op = "render"
    /\ call.name = PartialP
    /\ frames[1].frags = Loaded[PartialP].template.fragments

\* C24: the render of p, which includes q, which includes t, through a
\* FileLoader of any capacity, also one smaller than the chain, does not
\* panic, does not fail and writes what the three sources write as one,
\* which is what a cache that holds them all gives; a template whose entry
\* has been evicted goes on being rendered
C24_ChainOutlivesCache ==
    /\ pc # "panic"
    /\ (RendersFileP /\ data \in ChainData) =>
          /\ pc # "failed"
          /\ pc = "done" => writer = ChainWrites[data]
          /\ \A k \in 1..Len(frames) :
                \E name \in {PartialP, PartialQ, PartialT} :
                   \E i \in 0..Len(Loaded[name].template.fragments) :
                      \E j \in i..Len(Loaded[name].template.fragments) :
                         frames[k].frags =
                             SubSeq(Loaded[name].template.fragments, i + 1, j)

\* t is being rendered from q from p through a cache of capacity 1: the
\* cache holds t alone, p and q are evicted and their renders are still to
\* return
C24_Witness ==
    /\ RendersFileP
    /\ pc = "render"
    /\ loader.cap = 1
    /\ data \in ChainData
    /\ Names(loader.templates) = <<PartialT>>
    /\ Len(frames) = 4
    /\ frames[2].frags = Loaded[PartialQ].template.fragments
    /\ frames[4].frags = Loaded[PartialT].template.fragments
    /\ frames[4].frag_idx = Len(frames[4].frags)

\* the chain has been rendered through a cache of capacity 1 for an array
\* of two elements, t being included once for each
C24_WitnessDone ==
    /\ RendersFileP
    /\ pc = "done"
    /\ loader.cap = 1
    /\ data = Obj(<<KeyA, KeyB>>,
                  <<Arr(<<Str(<<"<">>), PosInt(1)>>), Bool(TRUE)>>)
    /\ writer = ChainWrites[data]
    /\ Len(writer) > 4

\* frames[k] is the _render of the body of a Section or InvertedSection,
\* its caller standing on the tag
IsBody(k) ==
    /\ k > 1
    /\ frames[k - 1].frags[frames[k - 1].frag_idx + 1].kind
          \in {"Section", "InvertedSection"}

\* the number of scopes.push that frames[1..k] have made and not yet
\* matched by a scopes.pop
Pushed(k) == Cardinality({j \in 2..k : IsBody(j)})

\* the scope stack from its bottom up to the scope of frames[k]: what the
\* _render of frames[k] was entered with
EnteredWith(k) == SubSeq(scopes, 1, 1 + Pushed(k))

\* while the render runs the stack holds the data and one scope for each
\* body that is being rendered: it is not empty where a path is resolved
ScopesOfBodies ==
    pc = "render" =>
        /\ scopes # <<>>
        /\ scopes[1] = data
        /\ Len(scopes) = 1 + Pushed(Len(frames))

\* a _render that returns Ok leaves the stack it was entered with, to a
\* caller that pops the scope it pushed or, for the next element of the
\* array, replaces it; nothing else changes the stack below its top
ScopesPaired ==
    /\ (pc = "render" /\ pc' = "render"
        /\ Len(frames') = Len(frames) + 1) =>
           \/ /\ TopFrag.kind = "Partial"
              /\ scopes' = scopes
           \/ /\ TopFrag.kind \in {"Section", "InvertedSection"}
              /\ Len(scopes') = Len(scopes) + 1
              /\ SubSeq(scopes', 1, Len(scopes)) = scopes
    /\ (pc = "render" /\ Returns /\ pc' = "render") =>
           /\ scopes = EnteredWith(Len(frames))
           /\ IF CallerFrag.kind = "Partial" THEN scopes' = scopes
              ELSE IF Len(frames') = Len(frames)
              THEN /\ Len(scopes') = Len(scopes)
                   /\ SubSeq(scopes', 1, Len(scopes) - 1) =
                         EnteredWith(Len(frames) - 1)
              ELSE scopes' = EnteredWith(Len(frames) - 1)
    /\ (pc = "render" /\ pc' = "render" /\ ~Returns
        /\ Len(frames') = Len(frames)) => scopes' = scopes
    /\ (pc = "render" /\ pc' = "done") => scopes' = <<data>>

\* a _render that returns the error of a partial returns it through every
\* enclosing _render by `?`, before the scopes.pop() of each: the scopes of
\* the enclosing sections stay on the stack, which Template::render drops
ScopesLeftOnError ==
    (pc = "render" /\ pc' = "failed") =>
        /\ scopes' = scopes
        /\ Len(scopes') = 1 + Pushed(Len(frames))

C25_WitnessDone ==
    /\ pc = "done"
    /\ source = NestedTwiceSource
    /\ scopes = <<data>>
    /\ writer # <<>>

\* s without the whitespace at its ends
RECURSIVE Trimmed(_)
Trimmed(s) ==
    IF s = <<>> THEN s
    ELSE IF Head(s) \in MultispaceChars THEN Trimmed(Tail(s))
    ELSE IF s[Len(s)] \in MultispaceChars
    THEN Trimmed(SubSeq(s, 1, Len(s) - 1))
    ELSE s

\* the fragment of the tag whose text between the braces is inner, none
\* for a comment and for a section end tag
TagFragments(inner) ==
    IF inner[1] \in {"!", "/"} THEN <<>>
    ELSE IF inner[1] = "#" THEN <<Frag("Section", Trimmed(Tail(inner)))>>
    ELSE IF inner[1] = "^"
    THEN <<Frag("InvertedSection", Trimmed(Tail(inner)))>>
    ELSE IF inner[1] = ">" THEN <<Frag("Partial", Trimmed(Tail(inner)))>>
    ELSE <<Frag("EscapedVariable", Trimmed(inner))>>

\* a source read from left to right: what is before the next {{ is one
\* literal, {{{ .. }}} is an unescaped variable, {{ .. }} a tag of the kind
\* its first character tells
RECURSIVE TagsAndLiterals(_)
TagsAndLiterals(s) ==
    IF s = <<>> THEN <<>>
    ELSE IF StartsWith(s, OpenUnescaped)
    THEN LET close == FindSlice(s, Close3)
         IN  <<Frag("UnescapedVariable", Trimmed(SubSeq(s, 4, close)))>>
             \o TagsAndLiterals(Drop(s, close + 3))
    ELSE IF StartsWith(s, OpenEscaped)
    THEN LET close == FindSlice(s, Close2)
         IN  TagFragments(SubSeq(s, 3, close))
             \o TagsAndLiterals(Drop(s, close + 2))
    ELSE LET open == FindSlice(s, OpenEscaped)
             n == IF open = -1 THEN Len(s) ELSE open
         IN  <<Frag("Literal", Take(s, n))>> \o TagsAndLiterals(Drop(s, n))

\* what one round of the repeat loop has consumed of the input
Consumed == Take(input, Len(input) - Len(input'))

\* a round of the loop consumes a literal run or a tag from the front of
\* the input and appends its fragment, none for a comment and for a section
\* end tag; the fragment index counts the fragments
FragmentPerTag ==
    (pc = "loop" /\ pc' = "loop") =>
        /\ Len(input') < Len(input)
        /\ input = Consumed \o input'
        /\ fragments' = fragments \o TagsAndLiterals(Consumed)
        /\ state'.fragment_index = Len(fragments')
        /\ (StartsWith(input, <<"{", "{", "!">>)
            \/ StartsWith(input, <<"{", "{", "/">>)) =>
               /\ fragments' = fragments
               /\ state'.fragment_index = state.fragment_index

\* a successful parse has consumed the source and holds its literal runs
\* and tags in source order, the paths without the whitespace around them
ParsedWhole ==
    pc' = "parsed" =>
        /\ input' = <<>>
        /\ fragments' = TagsAndLiterals(source)
        /\ \A i \in 1..Len(fragments') :
              fragments'[i].kind # "Literal" =>
                 /\ fragments'[i].s # <<>>
                 /\ \A j \in 1..Len(fragments'[i].s) :
                       fragments'[i].s[j] \notin MultispaceChars

\* C26: a successful parse consumes the whole source, and the fragments are
\* the maximal literal runs between tags and the escaped, unescaped,
\* section, inverted-section and partial tags in source order; comments and
\* section end tags add no fragment and leave the fragment index, and the
\* path of a tag is stored without the whitespace around it
C26_FragmentsInSourceOrder == [][FragmentPerTag /\ ParsedWhole]_vars

\* x{{!c}}{{^b}}{{/ b }} has parsed to the literal x and the inverted
\* section b: the comment and the end tag left no fragment, the literal
\* ends at the comment and the path b is stored without its spaces
C26_Witness ==
    /\ pc = "parsed"
    /\ source = Flatten(<<LitX, TagComment, TagInvB, TagEndB>>)
    /\ fragments = <<Frag("Literal", LitX), Frag("InvertedSection", KeyB)>>
    /\ state.fragment_index = 2
    /\ input = <<>>

\* x{x{{ a }} has parsed to one literal that holds the lone brace, and the
\* escaped variable a, stored without the spaces of the tag
C26_WitnessBrace ==
    /\ pc = "parsed"
    /\ source = Flatten(<<LitX, LitBrace, LitX, TagEscA>>)
    /\ fragments = <<Frag("Literal", <<"x", "{", "x">>),
                     Frag("EscapedVariable", KeyA)>>

\* the cursors of one _render are inside its slices: section_idx counts the
\* sections before frag_idx, so that on a section it is the index of the
\* entry of that section; the body ranges the entry gives lie in the
\* slices; at the end of the fragments the skips are at their end too
CursorsFit(f) ==
    /\ f.frag_idx <= Len(f.frags)
    /\ f.section_idx <= Len(f.skips)
    /\ f.section_idx = SectionsIn(f.frags, 1, f.frag_idx)
    /\ Len(f.skips) = SectionsIn(f.frags, 1, Len(f.frags))
    /\ f.frag_idx = Len(f.frags) => f.section_idx = Len(f.skips)
    /\ (f.frag_idx < Len(f.frags) /\ IsSection(f.frags[f.frag_idx + 1])) =>
          /\ f.section_idx < Len(f.skips)
          /\ f.frag_idx + 1 + f.skips[f.section_idx + 1].nested_fragments
                <= Len(f.frags)
          /\ f.section_idx + 1 + f.skips[f.section_idx + 1].nested_sections
                <= Len(f.skips)
          /\ f.skips[f.section_idx + 1].nested_sections =
                SectionsIn(f.frags, f.frag_idx + 2,
                           f.frag_idx + 1
                               + f.skips[f.section_idx + 1].nested_fragments)

\* C27: for every parsed template and every data value no _render indexes
\* outside its fragment or skip slice: the render does not panic, on a
\* Section or InvertedSection section_idx is a valid index of the skip
\* slice and that of the entry of this section, the body ranges lie inside
\* the slices, and a _render ends with frag_idx at the length of the
\* fragment slice and section_idx at the length of the skip slice
C27_CursorsInRange ==
    /\ pc # "panic"
    /\ pc \in {"render", "done"} =>
          \A k \in 1..Len(frames) : CursorsFit(frames[k])
    /\ pc = "done" =>
          /\ Top.frag_idx = Len(Top.frags)
          /\ Top.section_idx = Len(Top.skips)

\* {{#a}}{{^b}}{{/ b }}{{/a}}{{^b}}x{{/ b }}: the render has passed or
\* left the section a, which holds a section, and is on the second
\* inverted section b, the third of the fragments, with section_idx 2, the
\* last of the three entries, whose body is the one fragment behind it
C27_Witness ==
    /\ pc = "render"
    /\ source = Flatten(<<TagSecA, TagInvB, TagEndB, TagEndA,
                          TagInvB, LitX, TagEndB>>)
    /\ Len(frames) = 1
    /\ Top.frag_idx = 2
    /\ Top.section_idx = 2
    /\ Len(Top.skips) = 3
    /\ TopFrag.kind = "InvertedSection"
    /\ Top.skips[3].nested_fragments = 1
    /\ writer = <<>>

\* the same render in the body of the section a, on the inverted section b
\* in it: the body has a skip slice of one entry, which is that of b
C27_WitnessBody ==
    /\ pc = "render"
    /\ source = Flatten(<<TagSecA, TagInvB, TagEndB, TagEndA,
                          TagInvB, LitX, TagEndB>>)
    /\ Len(frames) = 2
    /\ Top.frag_idx = 0
    /\ Top.section_idx = 0
    /\ Len(Top.skips) = 1
    /\ Len(Top.frags) = 1
    /\ TopFrag.kind = "InvertedSection"

\* a step in which FileLoader::get returns an error: a get, the get of the
\* root of a render, or the get of a partial
GetFails ==
    \/ /\ pc = "ready"
       /\ pc' = "ready"
       /\ call'.op \in {"get", "render"}
       /\ ret'.r = "Err"
    \/ /\ pc = "render"
       /\ pc' = "failed"
       /\ loader.t = "FileLoader"

\* C28: a FileLoader::get that fails, the file being unreadable or its
\* source not parsing, leaves the cache as it was: the same entries with
\* the same templates in the same recency order
C28_FailedGetKeepsCache ==
    [][GetFails =>
          /\ loader'.templates = loader.templates
          /\ loader' = loader]_vars

\* get(r), whose file does not parse, has failed on a full cache of two
\* entries, the older of which a successful get would have evicted
C28_Witness ==
    /\ pc = "ready"
    /\ call.op = "get"
    /\ call.name = PartialR
    /\ ret.r = "Err"
    /\ ret.error.name = PartialR
    /\ loader.cap = 2
    /\ Names(loader.templates) = <<PartialQ, PartialP>>

\* the render of p has failed on the missing s, included by q: the cache of
\* capacity 1 holds q, which the get of s has not evicted
C28_WitnessPartial ==
    /\ pc = "failed"
    /\ call.op = "render"
    /\ call.name = PartialP
    /\ error = [kind |-> "IoError", name |-> PartialS]
    /\ loader.cap = 1
    /\ Names(loader.templates) = <<PartialQ>>

\* what get(name) returns on this loader
GetResult(l, name) ==
    LET got == loader_get(l, name)
    IN  IF got.ok THEN Result("Ok", got.template, NoError)
        ELSE Result("Err", NoTemplate, got.error)

\* a step of get, insert or remove on a HashMapLoader or a FileLoader
IsLoaderOp ==
    /\ pc \in {"map", "ready"}
    /\ pc' = pc
    /\ call'.op \in {"get", "insert", "remove"}

\* insert(name, T) makes T what get(name) returns, and get(name) returns it
InsertIsGot ==
    IsLoaderOp =>
        /\ call'.op = "insert" =>
              GetResult(loader', call'.name) =
                  Result("Ok", call'.template, NoError)
        /\ call'.op = "get" => ret' = GetResult(loader, call'.name)

\* a FileLoader step evicts this name: the cache is full, the name is its
\* least recently used entry, and a name that is not cached is put in
Evicts(name) ==
    /\ pc = "ready"
    /\ call'.op \in {"get", "insert"}
    /\ ~IsCached(loader.templates, call'.name)
    /\ Len(loader.templates) = loader.cap
    /\ loader.templates[loader.cap].name = name
    /\ ~IsCached(loader'.templates, name)

\* C29 (as amended): after insert(name, T) every later get(name) returns T
\* until remove(name) or another insert(name, ..): on a HashMapLoader
\* whatever is done with other names, on a FileLoader as long as name is
\* not evicted, which a get or an insert of an uncached name does to the
\* least recently used entry of a full cache
C29_InsertedUntilEvicted ==
    [][/\ InsertIsGot
       /\ IsLoaderOp =>
             \A name \in LoaderNames \ {call'.name} :
                \/ GetResult(loader', name) = GetResult(loader, name)
                \/ Evicts(name)]_vars

\* C29 (as stated): after insert(name, T) every later get(name) returns T
\* until remove(name) or another insert(name, ..), whatever gets, inserts
\* and removes of other names happen in between, on a HashMapLoader and on
\* a FileLoader
C29_InsertedStays ==
    [][/\ InsertIsGot
       /\ IsLoaderOp =>
             \A name \in LoaderNames \ {call'.name} :
                GetResult(loader', name) = GetResult(loader, name)]_vars

\* the FileLoader of capacity 2 holds the template inserted as s, for which
\* there is no file, behind q, which a get has loaded since
C29_Witness ==
    /\ pc = "ready"
    /\ loader.cap = 2
    /\ call.op = "get"
    /\ call.name = PartialQ
    /\ Names(loader.templates) = <<PartialQ, PartialS>>
    /\ GetResult(loader, PartialS) =
          Result("Ok", template_parse(TagUnescDot).template, NoError)

\* the HashMapLoader holds the templates inserted as p and as s, and a
\* get(q) has failed since
C29_WitnessMap ==
    /\ pc = "map"
    /\ call.op = "get"
    /\ call.name = PartialQ
    /\ ret.r = "Err"
    /\ Names(loader.templates) = <<PartialP, PartialS>>

\* the get(p) on a FileLoader of capacity 1 has loaded the file p in the
\* place of an inserted template, which get(s) does not return any more
C29_Evicted ==
    /\ pc = "ready"
    /\ loader.cap = 1
    /\ call.op = "get"
    /\ call.name = PartialP
    /\ ret.r = "Ok"
    /\ GetResult(loader, PartialS).r = "Err"

\* the cursor of the outermost _render goes forward only: a fragment
\* outside every section is left for the next one by the step that visits
\* it, or when the body or the partial entered at it returns, and the
\* cursor stays where it is in between
RootCursorMoves ==
    (pc = "render" /\ pc' = "render") =>
        /\ frames'[1].frags = frames[1].frags
        /\ Len(frames') = 1 => frames'[1].frag_idx > frames[1].frag_idx
        /\ Len(frames') > 1 => frames'[1].frag_idx = frames[1].frag_idx

\* C30: every render of a parsed template with a data value ends, with Ok
\* or with the error of a partial, no template that the partial tags reach
\* including itself; the fragments outside the sections are visited once
\* each, in their order
C30_RenderTerminates ==
    /\ (pc = "render") ~> (pc \in {"done", "failed"})
    /\ [][RootCursorMoves]_vars

\* {{#a}}{{{.}}}{{>p}}{{/a}}x has been rendered to its end for an array of
\* two elements, with the partial p, which has a section of its own, in
\* each round
C30_Witness ==
    /\ pc = "done"
    /\ source = Flatten(<<TagSecA, TagUnescDot, TagPartialP, TagEndA, LitX>>)
    /\ data = Obj1(KeyA, Arr(<<Str(<<"<">>), PosInt(2)>>))
    /\ loader = HashMapLoader(<<Entry(PartialP,
          template_parse(TagSecA \o TagEscA \o TagEndA \o LitX).template)>>)
    /\ frames[1].frag_idx = 4
    /\ Len(writer) > 4

=============================================================================
